---- MODULE Spec2Model ----
(***************************************************************************)
(* A model of the dimension / property pipeline of OnShape_Server_API:     *)
(* MetadataService (read-modify-write of part metadata), PropertyResolver  *)
(* (configuration variable -> bounding box fallback and the smart batch),  *)
(* OnShapeService (bounding boxes, blind metadata write) and               *)
(* BOMService.calculate_dimensions.                                        *)
(*                                                                         *)
(* One handler call is one action.  Every action starts a fresh operation: *)
(* `op` names the handler and its arguments, `log` is the sequence of HTTP *)
(* requests the operation has issued so far (with the answer each one      *)
(* got), `ret` is what the handler returned.  The loops of the two batch   *)
(* handlers advance one iteration per action, `pc` and `loop` holding the  *)
(* position and the locals.  The answers of the CAD API are inputs, drawn  *)
(* with \E from small sets.                                                *)
(*                                                                         *)
(* Python values of mixed type are records with a tag, so that TLC never   *)
(* compares values of different shapes.  Python floats are fixed point:    *)
(* see the section on calculate_dimensions.                                *)
(***************************************************************************)
EXTENDS Integers, Sequences, FiniteSets, TLC

VARIABLES op, log, ret, pc, loop, session, users, now

vars == <<op, log, ret, pc, loop, session, users, now>>

\* ------------------------------------------------------------------------
\* Bounds of the model
\* ------------------------------------------------------------------------

\* longest parts_updates list given to update_multiple_parts
MaxBatch == 2

\* longest bom_items list given to create_length_properties_smart
MaxItems == 2

\* ------------------------------------------------------------------------
\* Values
\* ------------------------------------------------------------------------

\* Python None where a string is expected (a missing key, a JSON null)
NoneS == "<None>"

Parts == {"p1", "p2"}

\* a partId as a caller may pass it: a part, or none at all
PartArgs == Parts \cup {NoneS}

Href(p) == IF p = "p1" THEN "href_p1" ELSE IF p = "p2" THEN "href_p2" ELSE "href_x"

\* the address of a request to the metadata of a part: the URL of
\* get_part_metadata, and that of the POST with its query
PartUrl(part_id, query) ==
    "/metadata/d/w/e/p/" \o part_id \o (IF query = "" THEN "" ELSE "?" \o query)

\* one entry of a properties array; absent keys are NoneS
Prop(pid, name, value, vtype) ==
    [propertyId |-> pid, name |-> name, value |-> value, valueType |-> vtype]

\* a metadata document as the metadata endpoint answers it:
\* {"items": [{"href": ..., "properties": [{"propertyId","value"}, ...]}]}
Item(href, props) == [href |-> href, properties |-> props]

\* href and properties are the keys main.py reads at the top level of the
\* document
Doc(items) == [items |-> items, href |-> NoneS, properties |-> <<>>]

TopDoc(href, props) == [items |-> <<>>, href |-> href, properties |-> props]

EmptyDoc == Doc(<<>>)

\* the existing properties of a part: opaque ids, as OnShape assigns them
PropsHex == << Prop("idL", "Length", "5", NoneS), Prop("idM", "Material", "Al", NoneS) >>

\* a part whose property ids happen to be spelled like the names
PropsNamed == << Prop("Length", "Length", "5", NoneS), Prop("Material", "Material", "Al", NoneS) >>

\* an entry without propertyId, and one without value
PropsOdd == << Prop(NoneS, "Length", "5", NoneS), Prop("idM", "Material", NoneS, NoneS) >>

\* the documents a GET of part p's metadata may answer with status 200
Docs(p) ==
    { Doc(<< Item(Href(p), PropsHex) >>),
      Doc(<< Item(Href(p), PropsNamed) >>),
      Doc(<< Item(Href(p), PropsOdd) >>),
      Doc(<< Item(NoneS, PropsHex) >>),
      Doc(<< Item(PartUrl(p, "configuration=default"), PropsHex) >>),
      Doc(<< Item(Href(p), <<>>) >>),
      EmptyDoc }

\* an HTTP answer; status 0 stands for requests raising (timeout, connection
\* error, a body that is not JSON)
Resp(status, json) == [status |-> status, json |-> json]

GetMetaResps(p) ==
    { Resp(200, d) : d \in Docs(p) } \cup { Resp(s, EmptyDoc) : s \in {404, 500, 0} }

PostStatuses == {200, 400, 0}

\* property_updates dictionaries: {name or id: new value}
UpdNone == [k \in {} |-> NoneS]

UpdLengthByName == [k \in {"Length"} |-> "10"]

UpdLengthById == [k \in {"idL"} |-> "10"]

\* the dictionary routes/length_properties.py passes
UpdLengthRoute ==
    [k \in {"Length", "Length_Unit", "Length_Source"} |->
        IF k = "Length" THEN "10" ELSE IF k = "Length_Unit" THEN "mm" ELSE "configuration"]

\* a JSON null as the new value
UpdNull == [k \in {"idM"} |-> NoneS]

UpdateDicts == {UpdNone, UpdLengthByName, UpdLengthById, UpdLengthRoute, UpdNull}

\* dict.get(key) of a property_updates dictionary
DictGet(d, k) == IF k \in DOMAIN d THEN d[k] ELSE NoneS

\* ------------------------------------------------------------------------
\* HTTP requests
\* ------------------------------------------------------------------------

NoBody == [ok |-> FALSE, href |-> NoneS, properties |-> <<>>]

\* one request of the log: the endpoint, the part it addresses, the query
\* string, the body sent, and the answer
Req(method, api, part, query, body, resp) ==
    [method |-> method, api |-> api, part |-> part, query |-> query,
     body |-> body, status |-> resp.status, json |-> resp.json, iter |-> 0]

\* the requests l, marked as issued in pass i of a batch loop
AtIter(l, i) == [j \in 1..Len(l) |-> [l[j] EXCEPT !.iter = i]]

\* ------------------------------------------------------------------------
\* MetadataService
\* ------------------------------------------------------------------------

_get_properties(metadata) ==
    IF Len(metadata.items) = 0 THEN <<>> ELSE metadata.items[1].properties

\* {propertyId: propertyId} for every entry that has a propertyId
_build_property_map(metadata) ==
    LET props == _get_properties(metadata)
        ids == { props[i].propertyId : i \in 1..Len(props) } \ {NoneS}
    IN [k \in ids |-> k]

\* the entry resent for one existing property
MergedProp(current_prop, property_updates) ==
    LET prop_id == current_prop.propertyId
        new_value == DictGet(property_updates, prop_id)
    IN IF new_value # NoneS
       THEN Prop(prop_id, NoneS, new_value, NoneS)
       ELSE Prop(prop_id, NoneS, current_prop.value, NoneS)

\* a writer that sends only the properties it changes
BuildBodyMutantOnlyUpdated(current_metadata, property_updates, property_map) ==
    IF Len(current_metadata.items) = 0 THEN NoBody
    ELSE LET current_item == current_metadata.items[1]
             changed == SelectSeq(current_item.properties,
                                  LAMBDA q : DictGet(property_updates, q.propertyId) # NoneS)
             updated_properties ==
                 [i \in 1..Len(changed) |-> MergedProp(changed[i], property_updates)]
         IN IF current_item.href = NoneS \/ Len(updated_properties) = 0 THEN NoBody
            ELSE [ok |-> TRUE, href |-> current_item.href, properties |-> updated_properties]

_build_update_body(current_metadata, property_updates, property_map) ==
    IF Len(current_metadata.items) = 0 THEN NoBody
    ELSE LET current_item == current_metadata.items[1]
             current_properties == current_item.properties
             updated_properties ==
                 [i \in 1..Len(current_properties) |->
                     MergedProp(current_properties[i], property_updates)]
         IN IF current_item.href = NoneS THEN NoBody
            ELSE IF Len(updated_properties) = 0 THEN NoBody
            ELSE [ok |-> TRUE, href |-> current_item.href, properties |-> updated_properties]

\* get_part_metadata: the request, and how the call ends
\* ("none": returned None, "raise": raised, "doc": returned the document)
GetMetaReq(part_id, g) == Req("GET", "metadata", part_id, "", NoBody, g)

GetMetaOutcome(g) ==
    IF g.status = 404 THEN "none" ELSE IF g.status # 200 THEN "raise" ELSE "doc"

\* a writer that posts again after a failed POST
UpdateMutantRetry(part_id, property_updates, g, ps) ==
    LET get == Req("GET", "metadata", part_id, "", NoBody, g)
        update_body == _build_update_body(g.json, property_updates, _build_property_map(g.json))
        post == Req("POST", "metadata", part_id, "configuration=default",
                    update_body, Resp(ps, EmptyDoc))
    IN IF g.status # 200 \/ ~update_body.ok THEN [ret |-> FALSE, log |-> <<get>>]
       ELSE IF ps = 200 THEN [ret |-> TRUE, log |-> <<get, post>>]
       ELSE [ret |-> FALSE, log |-> <<get, post, post>>]

\* a writer that names its own address as the href of the item it writes
UpdateMutantOwnHref(part_id, property_updates, g, ps) ==
    LET get == GetMetaReq(part_id, g)
        update_body == _build_update_body(g.json, property_updates, _build_property_map(g.json))
        post == Req("POST", "metadata", part_id, "configuration=default",
                    [update_body EXCEPT !.href = PartUrl(part_id, "configuration=default")],
                    Resp(ps, EmptyDoc))
    IN IF GetMetaOutcome(g) # "doc" THEN [ret |-> FALSE, log |-> <<get>>]
       ELSE IF ~update_body.ok THEN [ret |-> FALSE, log |-> <<get>>]
       ELSE [ret |-> (ps = 200), log |-> <<get, post>>]

\* update_part_metadata with the answers g (to the GET) and ps (to the POST,
\* if one is sent): the value returned and the requests issued, in order
update_part_metadata(part_id, property_updates, g, ps) ==
    LET get == GetMetaReq(part_id, g)
        update_body == _build_update_body(g.json, property_updates, _build_property_map(g.json))
        post == Req("POST", "metadata", part_id, "configuration=default",
                    update_body, Resp(ps, EmptyDoc))
    IN IF GetMetaOutcome(g) # "doc" THEN [ret |-> FALSE, log |-> <<get>>]
       ELSE IF ~update_body.ok THEN [ret |-> FALSE, log |-> <<get>>]
       ELSE [ret |-> (ps = 200), log |-> <<get, post>>]

\* ------------------------------------------------------------------------
\* BOMService.calculate_dimensions
\*
\* Fixed point.  A coordinate (a float, in metres) is an integer number of
\* micrometres (1e-6 m).  A length in millimetres is an integer number of
\* thousandths of a millimetre; a value rounded to 2 decimals is a multiple
\* of 10 of them.  A volume is an integer number of hundredths of a cubic
\* millimetre.  round(x, 2) is exact round-half-to-even; the sampled
\* coordinates give no extent that ends in 5 thousandths, so that no tie
\* arises, where binary floats could round either way.
\* ------------------------------------------------------------------------

\* sampled coordinates, in micrometres
CoordSamples == <<0, 1204, 500, 303>>

\* how many of the samples a box may use
NumCoords == 3

CoordValues == { CoordSamples[k] : k \in 1..NumCoords }

CoordNames == {"lowX", "lowY", "lowZ", "highX", "highY", "highZ"}

\* a JSON value where a number is expected: t is "num" (a number), "numstr"
\* (a string float() accepts), "str" (a string it rejects), "null", or
\* "missing" (the key is absent)
Val(t, n) == [t |-> t, n |-> n]

Num(n) == Val("num", n)

Missing == Val("missing", 0)

Null == Val("null", 0)

\* a bounding-box entry: isdict is FALSE for a JSON value that is no object
BBox(partId, id, c) == [isdict |-> TRUE, partId |-> partId, id |-> id, c |-> c]

NotADict == [isdict |-> FALSE, partId |-> NoneS, id |-> NoneS,
             c |-> [k \in CoordNames |-> Missing]]

Coords(lx, ly, lz, hx, hy, hz) ==
    [k \in CoordNames |->
        CASE k = "lowX" -> lx [] k = "lowY" -> ly [] k = "lowZ" -> lz
          [] k = "highX" -> hx [] k = "highY" -> hy [] OTHER -> hz]

\* a Dimensions record; raised is TRUE when the call raised instead
Dims(l, w, h, v) == [raised |-> FALSE, length |-> l, width |-> w, height |-> h, volume |-> v]

ZeroDims == Dims(0, 0, 0, 0)

RaisedDims == [raised |-> TRUE, length |-> 0, width |-> 0, height |-> 0, volume |-> 0]

RoundHalfEven(n, d) ==
    LET q == n \div d
        r == n % d
    IN IF 2 * r < d THEN q
       ELSE IF 2 * r > d THEN q + 1
       ELSE IF q % 2 = 0 THEN q ELSE q + 1

\* round(x, 2) of a length in thousandths of a millimetre
Round2(x) == RoundHalfEven(x, 10) * 10

\* sorted([a, b, c], reverse=True)
Max2(a, b) == IF a >= b THEN a ELSE b

Min2(a, b) == IF a <= b THEN a ELSE b

SortedDesc3(a, b, c) ==
    LET hi == Max2(a, Max2(b, c))
        lo == Min2(a, Min2(b, c))
    IN << hi, a + b + c - hi - lo, lo >>

\* bounding_box.get(key, 0)
CoordGet(bounding_box, k) ==
    IF bounding_box.c[k].t = "missing" THEN Num(0) ELSE bounding_box.c[k]

\* (high - low) * 1000, metres to millimetres: micrometres in, thousandths
\* of a millimetre out (1000 of them per millimetre, 1000000 micrometres per
\* metre)
ExtentMm(lo, hi) == ((hi - lo) * 1000 * 1000) \div 1000000

\* round(x, 2) of a volume: thousandths cubed in, hundredths of a cubic
\* millimetre out
RoundVolume(p) == RoundHalfEven(p, 10000000)

\* a calculator that multiplies the rounded dimensions
DimsMutantRoundedVolume(length_x, length_y, length_z) ==
    LET dimensions == SortedDesc3(length_x, length_y, length_z)
    IN Dims(Round2(dimensions[1]), Round2(dimensions[2]), Round2(dimensions[3]),
            RoundHalfEven((Round2(dimensions[1]) \div 10) * (Round2(dimensions[2]) \div 10)
                          * (Round2(dimensions[3]) \div 10), 10000))

\* the result record of both revisions, from the three extents
DimsOfExtents(length_x, length_y, length_z) ==
    LET dimensions == SortedDesc3(length_x, length_y, length_z)
    IN Dims(Round2(dimensions[1]), Round2(dimensions[2]), Round2(dimensions[3]),
            RoundVolume(dimensions[1] * dimensions[2] * dimensions[3]))

\* services/bom_service.py of OnShape_API: float() of every coordinate, and
\* any exception answered with the zero record
calculate_dimensions(bounding_box) ==
    IF ~bounding_box.isdict THEN ZeroDims
    ELSE LET v == [k \in CoordNames |-> CoordGet(bounding_box, k)]
         IN IF \E k \in CoordNames : v[k].t \notin {"num", "numstr"} THEN ZeroDims
            ELSE DimsOfExtents(ExtentMm(v["lowX"].n, v["highX"].n),
                               ExtentMm(v["lowY"].n, v["highY"].n),
                               ExtentMm(v["lowZ"].n, v["highZ"].n))

\* services/bom_service.py of main: no isinstance test, no float(), no try
calculate_dimensions_main(bounding_box) ==
    IF ~bounding_box.isdict THEN RaisedDims
    ELSE LET v == [k \in CoordNames |-> CoordGet(bounding_box, k)]
         IN IF \E k \in CoordNames : v[k].t # "num" THEN RaisedDims
            ELSE DimsOfExtents(ExtentMm(v["lowX"].n, v["highX"].n),
                               ExtentMm(v["lowY"].n, v["highY"].n),
                               ExtentMm(v["lowZ"].n, v["highZ"].n))

\* the boxes given to calculate_dimensions: every box over the sampled
\* coordinates, and the malformed ones
NumericBoxes ==
    { BBox("p1", NoneS, Coords(Num(lx), Num(ly), Num(lz), Num(hx), Num(hy), Num(hz))) :
        lx \in CoordValues, ly \in CoordValues, lz \in CoordValues,
        hx \in CoordValues, hy \in CoordValues, hz \in CoordValues }

MalformedBoxes ==
    { NotADict,
      BBox("p1", NoneS, Coords(Num(0), Num(0), Num(0), Val("str", 0), Num(500), Num(303))),
      BBox("p1", NoneS, Coords(Num(0), Num(0), Num(0), Val("numstr", 1204), Num(500), Num(303))),
      BBox("p1", NoneS, Coords(Num(0), Num(0), Num(0), Null, Num(500), Num(303))),
      BBox("p1", NoneS, Coords(Missing, Missing, Missing, Missing, Missing, Missing)),
      BBox("p1", NoneS, Coords(Missing, Num(0), Num(0), Num(1204), Num(500), Num(303))) }

DimensionInputs == NumericBoxes \cup MalformedBoxes

\* ------------------------------------------------------------------------
\* OnShapeService.get_bounding_boxes
\* ------------------------------------------------------------------------

\* what the element answers during one operation: the boundingboxes endpoint
\* (bstatus, boxes) and the parts endpoint (pstatus, islist, parts)
BoxWorld(bstatus, boxes, pstatus, islist, parts) ==
    [bstatus |-> bstatus, boxes |-> boxes, pstatus |-> pstatus, islist |-> islist, parts |-> parts]

SimpleGet(api, status) == Req("GET", api, NoneS, "", NoBody, Resp(status, EmptyDoc))

\* [raised, boxes, log]: 200 answers the boxes; requests raising raises; any
\* other status falls back to the parts endpoint, whose records are handed
\* back as they are
get_bounding_boxes(w) ==
    LET first == SimpleGet("boundingboxes", w.bstatus)
        second == SimpleGet("parts", w.pstatus)
    IN IF w.bstatus = 200 THEN [raised |-> FALSE, boxes |-> w.boxes, log |-> <<first>>]
       ELSE IF w.bstatus = 0 THEN [raised |-> TRUE, boxes |-> <<>>, log |-> <<first>>]
       ELSE IF w.pstatus # 200 THEN [raised |-> TRUE, boxes |-> <<>>, log |-> <<first, second>>]
       ELSE IF w.islist THEN [raised |-> FALSE, boxes |-> w.parts, log |-> <<first, second>>]
       ELSE [raised |-> FALSE, boxes |-> <<>>, log |-> <<first, second>>]

\* ------------------------------------------------------------------------
\* PropertyResolver
\* ------------------------------------------------------------------------

\* one entry of a variables answer
Var(name, value, expression, defaultValue) ==
    [name |-> name, value |-> value, expression |-> expression, defaultValue |-> defaultValue]

\* the variables endpoint (vstatus, vshape, vars) and the parameters endpoint
\* (qstatus, qshape, params); a shape is the key the list sits under, "list"
\* for a bare list, "dict" for an object with none of the keys read
VarWorld(vstatus, vshape, vs, qstatus, qshape, qs) ==
    [vstatus |-> vstatus, vshape |-> vshape, vars |-> vs,
     qstatus |-> qstatus, qshape |-> qshape, params |-> qs]

\* Python truth of a JSON value
Truthy(v) == CASE v.t = "num" -> v.n # 0 [] v.t \in {"numstr", "str"} -> TRUE [] OTHER -> FALSE

\* dict.get(key): an absent key is None
GetOrNone(v) == IF v.t = "missing" THEN Null ELSE v

\* var.get("value") or var.get("expression") or var.get("defaultValue")
OrChain(a, b, c) == IF Truthy(a) THEN a ELSE IF Truthy(b) THEN b ELSE GetOrNone(c)

\* {name: value}; a later entry of the same name replaces an earlier one
_parse_variables(variables) ==
    LET named == { i \in 1..Len(variables) : variables[i].name # NoneS }
        names == { variables[i].name : i \in named }
        last(n) == CHOOSE i \in named :
                      /\ variables[i].name = n
                      /\ \A j \in named : variables[j].name = n => j <= i
    IN [n \in names |->
          OrChain(variables[last(n)].value, variables[last(n)].expression,
                  variables[last(n)].defaultValue)]

NoVars == [n \in {} |-> Null]

\* [vars, log]: the variables endpoint, and the parameters endpoint when the
\* first gave nothing
get_all_variables(w) ==
    LET first == SimpleGet("variables", w.vstatus)
        second == SimpleGet("parameters", w.qstatus)
        fromFirst == IF w.vstatus = 200 /\ w.vshape \in {"variables", "items", "list"}
                     THEN _parse_variables(w.vars) ELSE NoVars
        fromSecond == IF w.qstatus = 200 /\ w.qshape \in {"parameters", "list"}
                      THEN _parse_variables(w.params) ELSE NoVars
    IN IF DOMAIN fromFirst # {} THEN [vars |-> fromFirst, log |-> <<first>>]
       ELSE [vars |-> fromSecond, log |-> <<first, second>>]

\* float(value) succeeds
FloatOk(v) == v.t \in {"num", "numstr"}

\* bbox.get("partId") or bbox.get("id")
KeyOf(bbox) == IF bbox.partId # NoneS THEN bbox.partId ELSE bbox.id

\* [found, dims, log]: the first box of the part, through calculate_dimensions
get_bbox_dimensions(w, part_id) ==
    LET got == get_bounding_boxes(w)
        hits == { i \in 1..Len(got.boxes) : KeyOf(got.boxes[i]) = part_id }
        target == got.boxes[CHOOSE i \in hits : \A j \in hits : i <= j]
    IN IF got.raised \/ hits = {}
       THEN [found |-> FALSE, dims |-> ZeroDims, log |-> got.log]
       ELSE [found |-> TRUE, dims |-> calculate_dimensions(target), log |-> got.log]

\* str.lower() of a property name
Lower(name) ==
    CASE name \in {"Length", "length"} -> "length"
      [] name \in {"Width", "width"} -> "width"
      [] name \in {"Height", "height"} -> "height"
      [] OTHER -> name

\* the dimension of the bounding box read for a property name, None for a
\* name that is none of the three
BBoxValue(dims, property_name) ==
    CASE Lower(property_name) = "length" -> Num(dims.length)
      [] Lower(property_name) = "width" -> Num(dims.width)
      [] Lower(property_name) = "height" -> Num(dims.height)
      [] OTHER -> Null

\* Strategy 2 alone: [val, log]
ResolveFromBBox(box, property_name) ==
    [val |-> IF box.found THEN BBoxValue(box.dims, property_name) ELSE Null, log |-> box.log]

ResolveMutantBBoxFirst(vw, bw, part_id, property_name, config_var_name) ==
    LET box == get_bbox_dimensions(bw, part_id)
        table == get_all_variables(vw)
    IN IF box.found /\ BBoxValue(box.dims, property_name).t = "num"
       THEN ResolveFromBBox(box, property_name)
       ELSE IF config_var_name # NoneS /\ config_var_name \in DOMAIN table.vars
                /\ FloatOk(table.vars[config_var_name])
       THEN [val |-> Num(table.vars[config_var_name].n), log |-> box.log \o table.log]
       ELSE [val |-> Null, log |-> box.log \o table.log]

\* [val, log]: the configuration variable when one is named, present and
\* float() accepts its value; else the bounding box; else None
resolve_property_value(vw, bw, part_id, property_name, config_var_name) ==
    LET table == IF config_var_name # NoneS THEN get_all_variables(vw)
                 ELSE [vars |-> NoVars, log |-> <<>>]
        box == ResolveFromBBox(get_bbox_dimensions(bw, part_id), property_name)
    IN IF config_var_name # NoneS /\ config_var_name \in DOMAIN table.vars
          /\ FloatOk(table.vars[config_var_name])
       THEN [val |-> Num(table.vars[config_var_name].n), log |-> table.log]
       ELSE [val |-> box.val, log |-> table.log \o box.log]

\* f"{property_value:.2f}" of a value in thousandths of a millimetre
TwoDigits(n) == IF n < 10 THEN "0" \o ToString(n) ELSE ToString(n)

Abs(n) == IF n < 0 THEN 0 - n ELSE n

Fmt2(x) ==
    LET c == RoundHalfEven(x, 10)
    IN (IF c < 0 THEN "-" ELSE "") \o ToString(Abs(c) \div 100) \o "." \o TwoDigits(Abs(c) % 100)

\* the payload of create_custom_property_safe: one named STRING property,
\* no href and no propertyId
SafePayload(property_name, property_value) ==
    [ok |-> TRUE, href |-> NoneS,
     properties |-> << Prop(NoneS, property_name, Fmt2(property_value), "STRING") >>]

\* [ret, log]: one POST to the part's metadata, nothing read before it
create_custom_property_safe(part_id, property_name, property_value, ps) ==
    [ret |-> (ps = 200),
     log |-> << Req("POST", "metadata", part_id, "", SafePayload(property_name, property_value),
                    Resp(ps, EmptyDoc)) >>]

\* Python truth of an Optional[float]
TruthyFloat(v) == v.t = "num" /\ v.n # 0

\* the properties the batch creates for one part: those whose value is true
CreateAllMutant(length_val, width_val, height_val) ==
    << [name |-> "Length", val |-> length_val.n], [name |-> "Width", val |-> width_val.n],
       [name |-> "Height", val |-> height_val.n] >>

PropsToCreate(length_val, width_val, height_val) ==
    (IF TruthyFloat(length_val) THEN << [name |-> "Length", val |-> length_val.n] >> ELSE <<>>)
    \o (IF TruthyFloat(width_val) THEN << [name |-> "Width", val |-> width_val.n] >> ELSE <<>>)
    \o (IF TruthyFloat(height_val) THEN << [name |-> "Height", val |-> height_val.n] >> ELSE <<>>)

\* ------------------------------------------------------------------------
\* OnShapeService.update_metadata
\* ------------------------------------------------------------------------

\* BOMService.create_property_objects: "<length> mm" and so on
create_property_objects(dimensions) ==
    << Prop(NoneS, "Length", Fmt2(dimensions.length) \o " mm", "STRING"),
       Prop(NoneS, "Width", Fmt2(dimensions.width) \o " mm", "STRING"),
       Prop(NoneS, "Height", Fmt2(dimensions.height) \o " mm", "STRING") >>

\* [raised, log]: one POST to /parts/.../metadata; raise_for_status raises
\* on a status of 400 or more, requests raising raises as well
update_metadata(part_id, properties, ps) ==
    [raised |-> (ps = 0 \/ ps >= 400),
     log |-> << Req("POST", "parts_metadata", part_id, "",
                    [ok |-> TRUE, href |-> NoneS, properties |-> properties],
                    Resp(ps, EmptyDoc)) >>]

\* ------------------------------------------------------------------------
\* UnitConverter (services/bom_conversion.py)
\*
\* A Python string is a sequence of one-character strings, so that strip(),
\* lower() and the regular expression can be computed character by
\* character.  A number given to the converter is an integer number of
\* hundredths; a conversion factor is an integer number of thousandths; a
\* result in millimetres is an integer number of ten-thousandths, which is
\* what round(x, 4) keeps.
\* ------------------------------------------------------------------------

\* F(x), with x computed once, however often F uses it
Bind(F(_), x) == CHOOSE r \in { F(v) : v \in {x} } : TRUE

Bind2(F(_, _), x, y) == CHOOSE r \in { F(v, w) : v \in {x}, w \in {y} } : TRUE

DigitChars == <<"0", "1", "2", "3", "4", "5", "6", "7", "8", "9">>

IsDigit(c) == \E i \in 1..10 : DigitChars[i] = c

DigitVal(c) == (CHOOSE i \in 1..10 : DigitChars[i] = c) - 1

UpperChars == <<"A", "B", "C", "D", "E", "F", "G", "H", "I", "J", "K", "L", "M",
                "N", "O", "P", "Q", "R", "S", "T", "U", "V", "W", "X", "Y", "Z">>

LowerChars == <<"a", "b", "c", "d", "e", "f", "g", "h", "i", "j", "k", "l", "m",
                "n", "o", "p", "q", "r", "s", "t", "u", "v", "w", "x", "y", "z">>

IsLowerLetter(c) == \E i \in 1..26 : LowerChars[i] = c

\* str.lower()
LowerChar(c) ==
    IF \E i \in 1..26 : UpperChars[i] = c
    THEN LowerChars[CHOOSE i \in 1..26 : UpperChars[i] = c]
    ELSE c

LowerText(text) == Bind(LAMBDA s : [i \in 1..Len(s) |-> LowerChar(s[i])], text)

IsSpace(c) == c = " "

\* length of the longest prefix of s made of characters that satisfy the
\* test named by cls
InClass(c, cls) ==
    CASE cls = "digitdot" -> IsDigit(c) \/ c = "."
      [] cls = "digit" -> IsDigit(c)
      [] cls = "space" -> IsSpace(c)
      [] cls = "unit" -> IsLowerLetter(c) \/ c = "\""
      [] OTHER -> FALSE

PrefixLen(text, cls) ==
    Bind(LAMBDA s : CHOOSE n \in 0..Len(s) :
                       /\ \A i \in 1..n : InClass(s[i], cls)
                       /\ n = Len(s) \/ ~InClass(s[n + 1], cls),
         text)

Drop(text, n) == Bind(LAMBDA s : SubSeq(s, n + 1, Len(s)), text)

\* str.strip()
StripText(s) ==
    Bind(LAMBDA t :
            LET last == IF \E i \in 1..Len(t) : ~IsSpace(t[i])
                        THEN CHOOSE i \in 1..Len(t) :
                                ~IsSpace(t[i]) /\ \A j \in (i + 1)..Len(t) : IsSpace(t[j])
                        ELSE 0
            IN SubSeq(t, 1, last),
         Drop(s, PrefixLen(s, "space")))

RECURSIVE JoinText(_)
\* the characters as one string
JoinText(text) == Bind(LAMBDA s : IF s = <<>> THEN "" ELSE Head(s) \o JoinText(Tail(s)), text)

RECURSIVE DigitsVal(_)
\* the integer a run of digits writes
DigitsVal(text) ==
    Bind(LAMBDA s : IF s = <<>> THEN 0
                    ELSE DigitsVal(SubSeq(s, 1, Len(s) - 1)) * 10 + DigitVal(s[Len(s)]),
         text)

\* a float: t is "num" (n hundredths), "nan", "inf", or "none" for None
Flt(t, n) == [t |-> t, n |-> n]

NoFloat == Flt("none", 0)

\* float() of a text of digits and dots: one dot at most, one digit at
\* least, two decimals at most in the texts of this model
DecimalOf(s) ==
    LET dots == { i \in 1..Len(s) : s[i] = "." }
        point == IF dots = {} THEN Len(s) + 1 ELSE CHOOSE i \in dots : TRUE
        whole == SubSeq(s, 1, point - 1)
        frac == SubSeq(s, point + 1, Len(s))
    IN IF Cardinality(dots) > 1 \/ Len(whole) + Len(frac) = 0
          \/ \E i \in 1..Len(s) : ~InClass(s[i], "digitdot")
       THEN NoFloat
       ELSE Flt("num", DigitsVal(whole) * 100
                       + (IF Len(frac) = 0 THEN 0
                          ELSE IF Len(frac) = 1 THEN DigitVal(frac[1]) * 10
                          ELSE DigitVal(frac[1]) * 10 + DigitVal(frac[2])))

\* float() of a whole text: a sign, then a decimal, or one of the words
\* float() reads as not-a-number and infinity; NoFloat for a ValueError
FloatOfText(s) ==
    LET t == LowerText(StripText(s))
        signed == Len(t) > 0 /\ t[1] \in {"-", "+"}
        body == IF signed THEN Drop(t, 1) ELSE t
        d == DecimalOf(body)
    IN IF JoinText(body) = "nan" THEN Flt("nan", 0)
       ELSE IF JoinText(body) \in {"inf", "infinity"} THEN Flt("inf", 0)
       ELSE IF d.t = "num" /\ signed /\ t[1] = "-" THEN Flt("num", 0 - d.n)
       ELSE d

\* the argument of the converter: a string (t = "str", its characters in
\* s), a number (t = "num", n hundredths) or None (t = "none")
Text(s) == [t |-> "str", n |-> 0, s |-> s]

NumberArg(n) == [t |-> "num", n |-> n, s |-> <<>>]

NoneArg == [t |-> "none", n |-> 0, s |-> <<>>]

\* conversion factors to millimetres, in thousandths
CONVERSIONS ==
    ("mm" :> 1000) @@ ("millimeter" :> 1000) @@ ("millimeters" :> 1000)
    @@ ("cm" :> 10000) @@ ("centimeter" :> 10000) @@ ("centimeters" :> 10000)
    @@ ("m" :> 1000000) @@ ("meter" :> 1000000) @@ ("meters" :> 1000000)
    @@ ("in" :> 25400) @@ ("inch" :> 25400) @@ ("inches" :> 25400) @@ ("\"" :> 25400)
    @@ ("ft" :> 304800) @@ ("foot" :> 304800) @@ ("feet" :> 304800)
    @@ ("um" :> 1) @@ ("micrometer" :> 1) @@ ("micrometers" :> 1)

\* the pair parse_value_with_unit returns; (None, None) is NoFloat with an
\* empty unit
Parsed(value, unit) == [value |-> value, unit |-> unit]

MmChars == <<"m", "m">>

parse_value_with_unit(value_str) ==
    IF value_str.t = "num" THEN Parsed(Flt("num", value_str.n), MmChars)
    ELSE IF value_str.t = "none" THEN Parsed(NoFloat, <<>>)
    ELSE LET text == LowerText(StripText(value_str.s))
             n1 == PrefixLen(text, "digitdot")
             group1 == SubSeq(text, 1, n1)
             rest == Drop(text, n1)
             after == Drop(rest, PrefixLen(rest, "space"))
             group2 == SubSeq(after, 1, PrefixLen(after, "unit"))
             unit == IF group2 = <<>> THEN MmChars ELSE group2
         IN IF n1 > 0
            THEN IF DecimalOf(group1).t = "num"
                 THEN Parsed(DecimalOf(group1), unit)
                 ELSE Parsed(NoFloat, <<>>)
            ELSE IF FloatOfText(text).t = "none" THEN Parsed(NoFloat, <<>>)
            ELSE Parsed(FloatOfText(text), MmChars)

\* a unit argument: its characters, or isstr FALSE for a value that has no
\* lower()
UnitArg(s) == [isstr |-> TRUE, s |-> s]

NoUnit == [isstr |-> FALSE, s |-> <<>>]

\* value (hundredths) times a factor (thousandths), rounded to 4 decimals
TimesRound4(value, factor) ==
    IF value.t = "num" THEN Flt("num", RoundHalfEven(value.n * factor, 10)) ELSE value

to_mm(value, unit) ==
    IF ~unit.isstr THEN TimesRound4(value, 1000)
    ELSE LET unit_lower == JoinText(StripText(LowerText(unit.s)))
         IN IF unit_lower \in DOMAIN CONVERSIONS
            THEN TimesRound4(value, CONVERSIONS[unit_lower])
            ELSE TimesRound4(value, 1000)

convert_string_to_mm(value_str) ==
    LET parsed == parse_value_with_unit(value_str)
    IN IF parsed.value.t = "none" THEN NoFloat
       ELSE to_mm(parsed.value, UnitArg(parsed.unit))

\* ------------------------------------------------------------------------
\* BOMService.process_bom_items
\* ------------------------------------------------------------------------

\* an entry of a BOM items list: a JSON object (a dictionary from keys to
\* values), or a value of another type
BomDict(d) == [t |-> "dict", d |-> d]

\* dict.get(key, default)
GetOr(d, k, default) == IF k \in DOMAIN d THEN d[k] ELSE default

\* an Assembly BOM entry with lower-camel keys, carrying the part it lists
BomEntryCamel ==
    BomDict([k \in {"item", "partNumber", "name", "quantity", "partId"} |->
        IF k = "item" THEN "1" ELSE IF k = "partNumber" THEN "PN-1"
        ELSE IF k = "name" THEN "Bracket" ELSE IF k = "quantity" THEN "2" ELSE "p1"])

\* a legacy entry with upper-snake keys
BomEntrySnake ==
    BomDict([k \in {"PART_NUMBER", "NAME", "QUANTITY", "partId"} |->
        IF k = "PART_NUMBER" THEN "PN-2" ELSE IF k = "NAME" THEN "Plate"
        ELSE IF k = "QUANTITY" THEN "4" ELSE "p2"])

BomEntryEmpty == BomDict([k \in {} |-> NoneS])

\* a string where an entry is expected
BomEntryText == [t |-> "str", d |-> [k \in {} |-> NoneS]]

BomEntries == {BomEntryCamel, BomEntrySnake, BomEntryEmpty, BomEntryText}

\* the row appended for one entry; the defaults 0, False and None are
\* written "0", "False" and NoneS
BomRow(item) ==
    [item |-> GetOr(item.d, "item", "-"),
     partNumber |-> GetOr(item.d, "partNumber", GetOr(item.d, "PART_NUMBER", "-")),
     name |-> GetOr(item.d, "name", GetOr(item.d, "NAME", "-")),
     quantity |-> GetOr(item.d, "quantity", GetOr(item.d, "QUANTITY", "-")),
     description |-> GetOr(item.d, "description", GetOr(item.d, "DESCRIPTION", "-")),
     indentLevel |-> GetOr(item.d, "indentLevel", "0"),
     hasChildren |-> GetOr(item.d, "hasChildren", "False"),
     parentId |-> GetOr(item.d, "parentId", NoneS)]

RECURSIVE BomRowsOfDicts(_)
BomRowsOfDicts(items) ==
    IF items = <<>> THEN <<>>
    ELSE IF Head(items).t = "dict"
         THEN <<BomRow(Head(items))>> \o BomRowsOfDicts(Tail(items))
         ELSE BomRowsOfDicts(Tail(items))

Rows(raised, rows) == [kind |-> "rows", raised |-> raised, rows |-> rows]

\* OnShape_API/services/bom_service.py: an entry that is not a dictionary
\* is skipped
process_bom_items(items) == Rows(FALSE, BomRowsOfDicts(items))

\* main/services/bom_service.py: item.get of an entry that is not a
\* dictionary raises AttributeError, and nothing catches it
process_bom_items_main(items) ==
    IF \E i \in 1..Len(items) : items[i].t # "dict"
    THEN Rows(TRUE, <<>>)
    ELSE Rows(FALSE, [i \in 1..Len(items) |-> BomRow(items[i])])

\* the items lists given to process_bom_items
BomLists == UNION { [1..n -> BomEntries] : n \in 0..MaxItems }

\* ------------------------------------------------------------------------
\* OnShapeService.get_bom
\* ------------------------------------------------------------------------

\* a BOM document: {"bomTable": {"items": [...]}, "type": ...}; hasTable is
\* whether the keys bomTable and items are there
BomData(hasTable, items, type) == [hasTable |-> hasTable, items |-> items, type |-> type]

NoBomData == BomData(FALSE, <<>>, NoneS)

\* what the Assembly BOM endpoint may answer with status 200
AssemblyBoms ==
    { BomData(TRUE, <<BomEntryCamel, BomEntrySnake>>, NoneS),
      BomData(TRUE, <<BomEntryText, BomEntryCamel>>, NoneS),
      BomData(TRUE, <<>>, NoneS),
      NoBomData }

\* records of the parts endpoint: with id, name and partNumber, or with a
\* name only
PartRecordFull ==
    BomDict([k \in {"id", "name", "partNumber"} |->
        IF k = "id" THEN "p1" ELSE IF k = "name" THEN "Bracket" ELSE "PN-1"])

PartRecordNamed == BomDict([k \in {"name"} |-> "Plate"])

PartRecords == {PartRecordFull, PartRecordNamed, BomEntryText}

PartLists == UNION { [1..n -> PartRecords] : n \in 0..MaxItems }

\* what the element answers during one get_bom: the Assembly BOM endpoint
\* (astatus, assembly) and the parts endpoint (pstatus, islist, parts)
BomWorld(astatus, assembly, pstatus, islist, parts) ==
    [astatus |-> astatus, assembly |-> assembly, pstatus |-> pstatus,
     islist |-> islist, parts |-> parts]

BomWorlds ==
    { BomWorld(200, a, 200, TRUE, <<>>) : a \in AssemblyBoms }
    \cup { BomWorld(a, NoBomData, 200, TRUE, l) : a \in {404, 0}, l \in PartLists }
    \cup { BomWorld(a, NoBomData, 200, FALSE, <<>>) : a \in {404, 500} }
    \cup { BomWorld(a, NoBomData, p, TRUE, <<>>) : a \in {404, 500}, p \in {404, 0} }

\* a PartStudio item numbered from 0
PartStudioItemMutantZeroBased(idx, part) ==
    BomDict(("item" :> idx - 1)
        @@ ("partNumber" :> GetOr(part.d, "partNumber", GetOr(part.d, "name", "-")))
        @@ ("name" :> GetOr(part.d, "name", "-"))
        @@ ("quantity" :> 1)
        @@ ("description" :> GetOr(part.d, "description", ""))
        @@ ("partId" :> GetOr(part.d, "id", "")))

\* the item made of entry idx (from 1) of the parts list
PartStudioItem(idx, part) ==
    BomDict(("item" :> idx)
        @@ ("partNumber" :> GetOr(part.d, "partNumber", GetOr(part.d, "name", "-")))
        @@ ("name" :> GetOr(part.d, "name", "-"))
        @@ ("quantity" :> 1)
        @@ ("description" :> GetOr(part.d, "description", ""))
        @@ ("partId" :> GetOr(part.d, "id", "")))

BomAnswer(raised, data, l) == [raised |-> raised, data |-> data, log |-> l]

\* [raised, data, log]: the Assembly answer as it is when its status is 200;
\* otherwise the items made of the parts list.  requests raising, an entry
\* of the parts list that has no get, and a parts status other than 200
\* all raise
get_bom(w) ==
    LET first == Req("GET", "assemblies_bom", NoneS, "indented=false", NoBody,
                     Resp(w.astatus, EmptyDoc))
        second == SimpleGet("parts", w.pstatus)
    IN IF w.astatus = 0 THEN BomAnswer(TRUE, NoBomData, <<first>>)
       ELSE IF w.astatus = 200 THEN BomAnswer(FALSE, w.assembly, <<first>>)
       ELSE IF w.pstatus # 200 THEN BomAnswer(TRUE, NoBomData, <<first, second>>)
       ELSE IF ~w.islist
            THEN BomAnswer(FALSE, BomData(TRUE, <<>>, "PartStudio"), <<first, second>>)
       ELSE IF \E i \in 1..Len(w.parts) : w.parts[i].t # "dict"
            THEN BomAnswer(TRUE, NoBomData, <<first, second>>)
       ELSE BomAnswer(FALSE,
                      BomData(TRUE, [i \in 1..Len(w.parts) |-> PartStudioItem(i, w.parts[i])],
                              "PartStudio"),
                      <<first, second>>)

\* ------------------------------------------------------------------------
\* LengthPropertyResolver (services/length_property_resolver.py)
\* ------------------------------------------------------------------------

\* needle in haystack, of two texts
Contains(haystack, needle) ==
    Bind(LAMBDA h : \E i \in 1..(Len(h) - Len(needle) + 1) :
                       SubSeq(h, i, i + Len(needle) - 1) = needle,
         haystack)

\* haystack.startswith(needle)
StartsWith(haystack, needle) ==
    Bind(LAMBDA h : Len(h) >= Len(needle) /\ SubSeq(h, 1, Len(needle)) = needle, haystack)

\* str(value): the text of a string, "None" for None
StrOf(arg) == IF arg.t = "none" THEN <<"N", "o", "n", "e">> ELSE arg.s

\* a property of a metadata document, as name and value texts
LProp(name, value) == [name |-> name, value |-> value]

\* a configuration variable: name, value and units
LVar(name, value, units) == [name |-> name, value |-> value, units |-> units]

\* a BOM item as resolve_length_properties reads it; isdict is FALSE for a
\* JSON value that is no object
LItem(partId, id, name) == [isdict |-> TRUE, partId |-> partId, id |-> id, name |-> name]

\* the answer to a GET of the part's metadata: a status and the properties
\* of the first item of the document
LMeta(status, props) == [status |-> status, props |-> props]

\* the answer to a GET of the element's variables
LVars(status, islist, variables) == [status |-> status, islist |-> islist, variables |-> variables]

\* the two tests of one property: "units" in the name with "millimeter" in
\* the value, or "unit" in the name with "mm" or "millimeter" in the value
IsUnitsMillimeter(prop) ==
    Bind2(LAMBDA prop_name, prop_value :
       \/ Contains(prop_name, <<"u", "n", "i", "t", "s">>) /\ Contains(prop_value, <<"m", "i", "l", "l", "i", "m", "e", "t", "e", "r">>)
       \/ /\ Contains(prop_name, <<"u", "n", "i", "t">>)
          /\ (Contains(prop_value, <<"m", "m">>) \/ Contains(prop_value, <<"m", "i", "l", "l", "i", "m", "e", "t", "e", "r">>)),
       LowerText(prop.name), LowerText(prop.value))

\* the request of the resolver for a part's metadata; _make_request raises
\* on a status of 400 or more and when requests raises
LMetaReq(part_id, m) == Req("GET", "part_metadata", part_id, "", NoBody, Resp(m.status, EmptyDoc))

\* [val, log]: False without a request when there is no part_id, False when
\* the request raised or answered another status than 200
_check_units_millimeter(part_id, m) ==
    IF part_id = NoneS THEN [val |-> FALSE, log |-> <<>>]
    ELSE [val |-> m.status = 200 /\ \E i \in 1..Len(m.props) : IsUnitsMillimeter(m.props[i]),
          log |-> << LMetaReq(part_id, m) >>]

\* the length of the longest match of \d+\.?\d* at position i of s
NumberLen(s, i) ==
    Bind(LAMBDA d1 :
            Bind(LAMBDA rest : IF Len(rest) > 0 /\ rest[1] = "."
                               THEN d1 + 1 + PrefixLen(Drop(rest, 1), "digit")
                               ELSE d1,
                 Drop(s, i - 1 + d1)),
         PrefixLen(Drop(s, i - 1), "digit"))

NumberAt(s, i) == DecimalOf(SubSeq(s, i, i + NumberLen(s, i) - 1))

\* re.findall(r'(\d+\.?\d*)', s)[0], as a float; NoFloat when there is none
FirstNumber(s) ==
    Bind(LAMBDA digits : IF digits = {} THEN NoFloat
                         ELSE NumberAt(s, CHOOSE i \in digits : \A j \in digits : i <= j),
         { i \in 1..Len(s) : IsDigit(s[i]) })

\* the branches of _parse_value_to_mm on the unit text, in hundredths of a
\* millimetre
ValueInMm(numeric_value, unit_str) ==
       IF numeric_value.t # "num" THEN NoFloat
       ELSE IF Contains(unit_str, <<"m", "m">>) \/ Contains(unit_str, <<"m", "i", "l", "l", "i", "m", "e", "t", "e", "r">>)
            THEN numeric_value
       ELSE IF Contains(unit_str, <<"c", "m">>) \/ Contains(unit_str, <<"c", "e", "n", "t", "i", "m", "e", "t", "e", "r">>)
            THEN Flt("num", numeric_value.n * 10)
       ELSE IF Contains(unit_str, <<"m">>)
            THEN Flt("num", numeric_value.n * 1000)
       ELSE IF Contains(unit_str, <<"i", "n", "c", "h">>) \/ Contains(unit_str, <<"\"">>)
            THEN Flt("num", RoundHalfEven(numeric_value.n * 254, 10))
       ELSE IF Contains(unit_str, <<"f", "t">>) \/ Contains(unit_str, <<"f", "o", "o", "t">>)
            THEN Flt("num", RoundHalfEven(numeric_value.n * 3048, 10))
       ELSE numeric_value

_parse_value_to_mm(value, unit) ==
    Bind(LAMBDA value_str :
            Bind2(ValueInMm, FirstNumber(value_str),
                  IF unit.t = "str" /\ unit.s # <<>> THEN LowerText(unit.s) ELSE value_str),
         LowerText(StripText(StrOf(value))))

\* what a strategy answers: found is FALSE for None
Extracted(found, mm, source, l) == [found |-> found, mm |-> mm, source |-> source, log |-> l]

NotExtracted(l) == Extracted(FALSE, NoFloat, NoneS, l)

\* strategy 1: the first variable with "length" in its name whose value
\* parses
_get_from_variables(v) ==
    LET l == << SimpleGet("partstudio_variables", v.status) >>
    IN Bind(LAMBDA hits :
               IF v.status = 200 /\ v.islist /\ hits # {}
               THEN LET var == v.variables[CHOOSE i \in hits : \A j \in hits : i <= j]
                    IN Extracted(TRUE, _parse_value_to_mm(var.value, var.units),
                                 "configuration_variable", l)
               ELSE NotExtracted(l),
            { i \in 1..Len(v.variables) :
                /\ Contains(LowerText(v.variables[i].name), <<"l", "e", "n", "g", "t", "h">>)
                /\ _parse_value_to_mm(v.variables[i].value, v.variables[i].units).t = "num" })

\* strategy 2: the first property with "length" in its name whose value
\* parses
_get_from_part_properties(part_id, m) ==
    LET l == << LMetaReq(part_id, m) >>
    IN Bind(LAMBDA hits :
               IF m.status = 200 /\ hits # {}
               THEN LET prop == m.props[CHOOSE i \in hits : \A j \in hits : i <= j]
                    IN Extracted(TRUE, _parse_value_to_mm(Text(prop.value), NoneArg),
                                 "metadata_property", l)
               ELSE NotExtracted(l),
            { i \in 1..Len(m.props) :
                /\ Contains(LowerText(m.props[i].name), <<"l", "e", "n", "g", "t", "h">>)
                /\ _parse_value_to_mm(Text(m.props[i].value), NoneArg).t = "num" })

\* the patterns of strategy 3: a number followed by blanks and a suffix, or
\* a number led by one character
NamePatterns ==
    << [lead |-> <<>>, suffix |-> <<"m", "m">>], [lead |-> <<>>, suffix |-> <<"x">>],
       [lead |-> <<"_">>, suffix |-> <<>>], [lead |-> <<"-">>, suffix |-> <<>>] >>

\* the positions of s where the number of a match of the pattern starts
MatchStarts(s, pattern) ==
    { i \in 1..Len(s) :
        /\ IsDigit(s[i])
        /\ pattern.lead # <<>> => (i > 1 /\ s[i - 1] = pattern.lead[1])
        /\ Bind(LAMBDA rest : StartsWith(Drop(rest, PrefixLen(rest, "space")), pattern.suffix),
                Drop(s, i - 1 + NumberLen(s, i))) }

\* float(match.group(1)) of re.search, NoFloat without a match
PatternValue(s, pattern) ==
    Bind(LAMBDA starts : IF starts = {} THEN NoFloat
                         ELSE NumberAt(s, CHOOSE i \in starts : \A j \in starts : i <= j),
         MatchStarts(s, pattern))

RECURSIVE NameValueMutantNoRange(_, _)
\* a part-name strategy that takes the first pattern that matches at all
NameValueMutantNoRange(s, k) ==
    IF k > Len(NamePatterns) THEN NoFloat
    ELSE Bind(LAMBDA value : IF value.t = "num" THEN value
                             ELSE NameValueMutantNoRange(s, k + 1),
              PatternValue(s, NamePatterns[k]))

RECURSIVE NameValue(_, _)
\* the value of the first pattern whose match lies between 0.1 and 10000
NameValue(s, k) ==
    IF k > Len(NamePatterns) THEN NoFloat
    ELSE Bind(LAMBDA value : IF value.t = "num" /\ 10 < value.n /\ value.n < 1000000
                             THEN value
                             ELSE NameValue(s, k + 1),
              PatternValue(s, NamePatterns[k]))

\* strategy 3: part_name.lower() of None raises, which the strategy catches
_get_from_part_name(part_name) ==
    Bind(LAMBDA value : IF value.t = "num" THEN Extracted(TRUE, value, "part_name", <<>>)
                        ELSE NotExtracted(<<>>),
         IF part_name.t = "str" THEN Bind(LAMBDA s : NameValue(s, 1), LowerText(part_name.s))
         ELSE NoFloat)

\* the strategies in order, the first that answers a value wins
_extract_length_from_config(part_id, part_name, v, m) ==
    Bind(LAMBDA first :
            IF first.found THEN first
            ELSE Bind(LAMBDA second :
                         IF second.found THEN [second EXCEPT !.log = first.log \o second.log]
                         ELSE [_get_from_part_name(part_name) EXCEPT
                                  !.log = first.log \o second.log],
                      _get_from_part_properties(part_id, m)),
         _get_from_variables(v))

LResult(part_id, has_units_mm, length_mm, status) ==
    [part_id |-> part_id, has_units_mm |-> has_units_mm, length_mm |-> length_mm,
     status |-> status]

\* a resolver that extracts whatever the check says
ResolveItemMutantNoGate(part_id, check, extracted) ==
    [result |-> LResult(part_id, check.val,
                        IF extracted.found THEN extracted.mm ELSE NoFloat,
                        IF extracted.found THEN "success" ELSE "no_length_found"),
     log |-> check.log \o extracted.log]

\* one pass of the loop of resolve_length_properties, from the answer of
\* the check and what the extraction would answer: [result, log]
ResolveItem(part_id, check, extracted) ==
    IF check.val
    THEN [result |-> LResult(part_id, TRUE,
                             IF extracted.found THEN extracted.mm ELSE NoFloat,
                             IF extracted.found THEN "success" ELSE "no_length_found"),
          log |-> check.log \o extracted.log]
    ELSE [result |-> LResult(part_id, FALSE, NoFloat, "no_units_mm"), log |-> check.log]

\* item.get("partId") or item.get("id")
LPartId(item) == IF item.partId # NoneS THEN item.partId ELSE item.id

\* ------------------------------------------------------------------------
\* Operations
\* ------------------------------------------------------------------------

NoOp == [name |-> "none", part |-> NoneS]

NoLoop == [idx |-> 0]

RetNone == [kind |-> "none"]

RetBool(b) == [kind |-> "bool", val |-> b]

\* ---- the users table and the clock ----------------------------------------

\* the latest time of the clock of the model
MaxTime == 3

\* OnShape accounts that log in
OnShapeIds == {"o1", "o2"}

\* User.id: the uuid the row of an account got when it was created
IdOf(onshape_id) == IF onshape_id = "o1" THEN "u1" ELSE "u2"

\* the ids a request may name: those of the accounts, and one of no row
UserIds == {"u1", "u2", "u9"}

AccessTokens == {"t1", "t2"}

\* expires_in of the token data, in ticks of the clock; NoExpiresIn is a
\* token data without the key, for which save_user takes 3600
NoExpiresIn == 0 - 1

ExpiresIns == {1, 2, NoExpiresIn}

\* Fernet, with ENCRYPTION_KEY set: the stored text is not the token, and
\* decrypts to it
encrypt_token(token) == [cipher |-> "fernet", text |-> token]

decrypt_token(encrypted_token) == encrypted_token.text

\* the users table: the rows by onshape_id, none at the start
NoUsers == [o \in {} |-> {}]

\* the row whose id is user_id, as a set: empty when there is none
RowsOf(table, user_id) == { o \in DOMAIN table : table[o].id = user_id }

\* a token that never expires
ExpiredMutantNever(user, t) == FALSE

\* User.is_token_expired: datetime.utcnow() > self.token_expires_at
is_token_expired(user, t) == t > user.token_expires_at

\* AuthService.save_user at time t: the table after the commit
save_user(table, t, onshape_id, token_data) ==
    LET expires_in == IF token_data.expires_in = NoExpiresIn THEN 3600
                      ELSE token_data.expires_in
        row == [id |-> IdOf(onshape_id),
                access_token |-> encrypt_token(token_data.access_token),
                token_expires_at |-> t + expires_in,
                last_login |-> t]
    IN [o \in DOMAIN table \cup {onshape_id} |-> IF o = onshape_id THEN row ELSE table[o]]

\* AuthService.get_valid_token and get_user_token of main.py at time t, over
\* the table: [raised, token]
get_valid_token_at(table, t, user_id) ==
    IF RowsOf(table, user_id) = {} THEN [raised |-> TRUE, token |-> NoneS]
    ELSE LET user == table[CHOOSE o \in RowsOf(table, user_id) : TRUE]
         IN IF is_token_expired(user, t) THEN [raised |-> TRUE, token |-> NoneS]
            ELSE [raised |-> FALSE, token |-> decrypt_token(user.access_token)]

\* ---- the routes and their token ------------------------------------------

\* the user a request names: known with a token that has not expired,
\* known with an expired token, or unknown
Users == {"valid", "expired", "missing"}

\* a token provider that hands out the token of a user whose token expired
TokenMutantIgnoreExpiry(user) == [raised |-> user = "missing"]

\* AuthService.get_valid_token and get_user_token of main.py: both raise
\* for an unknown user and for an expired token
get_valid_token(user) == [raised |-> user # "valid"]

\* the routes of the model, with the HTTP status each answers when
\* get_valid_token raises
RouteAuthStatus ==
    ("metadata.update_metadata" :> 500)
    @@ ("metadata.batch_update_metadata" :> 500)
    @@ ("smart_properties.resolve_value" :> 500)
    @@ ("smart_properties.create_smart_properties" :> 500)
    @@ ("properties.create_length_properties" :> 401)
    @@ ("main.routes.properties.create_length_properties" :> 400)
    @@ ("main.create_length_properties" :> 401)
    @@ ("bom.fetch_bom" :> 500)
    @@ ("length_properties.analyze_length_properties" :> 500)

Routes == DOMAIN RouteAuthStatus

\* the HTTP status each route answers to a request it rejects for a missing
\* required parameter or an empty list: the HTTPException(400) is raised
\* inside the try of the handler, and passes only where an except
\* HTTPException clause stands before the generic one (or the test stands
\* before the try)
RouteRejectStatus ==
    ("metadata.update_metadata" :> 500)
    @@ ("metadata.batch_update_metadata" :> 500)
    @@ ("smart_properties.resolve_value" :> 500)
    @@ ("smart_properties.create_smart_properties" :> 400)
    @@ ("properties.create_length_properties" :> 400)
    @@ ("main.routes.properties.create_length_properties" :> 400)
    @@ ("main.create_length_properties" :> 400)
    @@ ("bom.fetch_bom" :> 400)
    @@ ("length_properties.analyze_length_properties" :> 500)

\* no request is being served: a service method is called on its own
NoSession == [route |-> "none", user |-> "none", complete |-> TRUE]

Direct == session = NoSession

\* the request of one of the routes holds a token
Serving(routes) ==
    session.route \in routes /\ session.complete /\ ~get_valid_token(session.user).raised

HttpError(code) == [kind |-> "http", code |-> code]

Init ==
    /\ op = NoOp
    /\ log = <<>>
    /\ ret = RetNone
    /\ pc = "idle"
    /\ loop = NoLoop
    /\ session = NoSession
    /\ users = NoUsers
    /\ now = 0

\* the handler has answered; the server waits for the next request
Reply ==
    /\ pc \in {"done", "raised"}
    /\ op' = NoOp
    /\ log' = <<>>
    /\ ret' = RetNone
    /\ pc' = "idle"
    /\ loop' = NoLoop
    /\ session' = NoSession
    /\ UNCHANGED <<users, now>>

\* a request arrives at a route: the route tests its required parameters
\* (complete is FALSE for a request that misses one, or whose list is
\* empty), then asks for the user's token before anything else, and answers
\* an HTTP error when there is none
Authenticate ==
    /\ pc = "idle"
    /\ Direct
    /\ \E route \in Routes, user \in Users, complete \in BOOLEAN :
          /\ session' = [route |-> route, user |-> user, complete |-> complete]
          /\ IF ~complete
             THEN /\ pc' = "raised"
                  /\ ret' = HttpError(RouteRejectStatus[route])
             ELSE IF get_valid_token(user).raised
             THEN /\ pc' = "raised"
                  /\ ret' = HttpError(RouteAuthStatus[route])
             ELSE UNCHANGED <<pc, ret>>
    /\ UNCHANGED <<op, log, loop, users, now>>

\* MetadataService.update_part_metadata called by a route
UpdatePartMetadata ==
    /\ pc = "idle"
    /\ (Direct \/ Serving({"metadata.update_metadata"}))
    /\ UNCHANGED <<session, users, now>>
    /\ \E part_id \in PartArgs, u \in UpdateDicts :
         \E g \in GetMetaResps(part_id), ps \in PostStatuses :
            LET r == update_part_metadata(part_id, u, g, ps)
            IN /\ op' = [name |-> "update_part_metadata", part |-> part_id, updates |-> u]
               /\ log' = r.log
               /\ ret' = RetBool(r.ret)
    /\ pc' = "done"
    /\ UNCHANGED loop

\* ---- update_multiple_parts -------------------------------------------

\* the elements routes/metadata.py builds: {"partId": ..., "updates": ...}
BatchUpdateDicts == {UpdLengthById}

PartUpdates == [partId : PartArgs, updates : BatchUpdateDicts]

SeqsUpTo(S, n) == UNION { [1..k -> S] : k \in 0..n }

\* results[part_id] = success
DictSet(d, k, v) == [x \in DOMAIN d \cup {k} |-> IF x = k THEN v ELSE d[x]]

\* the position after one pass of the for loop: the next element, whatever
\* update_part_metadata returned
BatchMutantAbortOnFailure(idx, success, n) == IF success THEN idx + 1 ELSE n

BatchAdvance(idx, success, n) == idx + 1

UpdateMultipleParts_Call ==
    /\ pc = "idle"
    /\ (Direct \/ Serving({"metadata.batch_update_metadata"}))
    /\ UNCHANGED <<session, users, now>>
    /\ \E parts_updates \in SeqsUpTo(PartUpdates, MaxBatch) :
          op' = [name |-> "update_multiple_parts", part |-> NoneS, input |-> parts_updates]
    /\ log' = <<>>
    /\ ret' = RetNone
    /\ pc' = "batch"
    /\ loop' = [idx |-> 0, results |-> [k \in {} |-> FALSE]]

\* one pass of the for loop: one whole update_part_metadata call
UpdateMultipleParts_Iterate ==
    /\ pc = "batch"
    /\ UNCHANGED <<session, users, now>>
    /\ loop.idx < Len(op.input)
    /\ LET part_update == op.input[loop.idx + 1]
           part_id == part_update.partId
       IN \E g \in GetMetaResps(part_id), ps \in PostStatuses :
            LET r == update_part_metadata(part_id, part_update.updates, g, ps)
            IN /\ log' = log \o AtIter(r.log, loop.idx + 1)
               /\ loop' = [idx |-> BatchAdvance(loop.idx, r.ret, Len(op.input)),
                           results |-> DictSet(loop.results, part_id, r.ret)]
    /\ UNCHANGED <<op, ret, pc>>

\* sum(1 for v in results.values() if v)
SuccessCount(results) == Cardinality({ k \in DOMAIN results : results[k] })

\* the method returns the map; routes/metadata.py wraps it with the count of
\* its true values
UpdateMultipleParts_Return ==
    /\ pc = "batch"
    /\ UNCHANGED <<session, users, now>>
    /\ loop.idx >= Len(op.input)
    /\ ret' = IF Direct THEN [kind |-> "map", val |-> loop.results]
              ELSE [kind |-> "map", val |-> loop.results,
                    status |-> IF SuccessCount(loop.results) > 0 THEN "success" ELSE "partial",
                    message |-> "Updated parts",
                    totalParts |-> Len(op.input),
                    successCount |-> SuccessCount(loop.results)]
    /\ pc' = "done"
    /\ UNCHANGED <<op, log, loop>>

\* ---- calculate_dimensions ---------------------------------------------

CalculateDimensions ==
    /\ pc = "idle"
    /\ (Direct)
    /\ UNCHANGED <<session, users, now>>
    /\ \E bounding_box \in DimensionInputs :
         /\ op' = [name |-> "calculate_dimensions", part |-> NoneS, bbox |-> bounding_box]
         /\ ret' = [kind |-> "dims", val |-> calculate_dimensions(bounding_box)]
    /\ log' = <<>>
    /\ pc' = "done"
    /\ UNCHANGED loop

\* the revision under main/, called by main/routes/properties.py
CalculateDimensionsMain ==
    /\ pc = "idle"
    /\ (Direct)
    /\ UNCHANGED <<session, users, now>>
    /\ \E bounding_box \in DimensionInputs :
         LET d == calculate_dimensions_main(bounding_box)
         IN /\ op' = [name |-> "calculate_dimensions_main", part |-> NoneS, bbox |-> bounding_box]
            /\ ret' = [kind |-> "dims", val |-> d]
            /\ pc' = IF d.raised THEN "raised" ELSE "done"
    /\ log' = <<>>
    /\ UNCHANGED loop

\* ---- PropertyResolver --------------------------------------------------

VarsAll == << Var("PartLength", Num(12000), Missing, Missing),
              Var("PartWidth", Val("numstr", 7500), Missing, Missing),
              Var("PartHeight", Val("str", 0), Missing, Missing) >>

\* a variable whose value is the number 0
VarsZero == << Var("PartLength", Num(0), Missing, Missing) >>

\* a variable given by its expression only
VarsExpr == << Var("PartLength", Missing, Val("numstr", 15000), Missing) >>

VarsParam == << Var("PartLength", Num(20000), Missing, Missing) >>

VarWorlds ==
    { VarWorld(200, "variables", VarsAll, 404, "dict", <<>>),
      VarWorld(200, "list", VarsZero, 404, "dict", <<>>),
      VarWorld(200, "items", VarsExpr, 200, "parameters", VarsParam),
      VarWorld(404, "dict", <<>>, 200, "parameters", VarsParam),
      VarWorld(200, "dict", VarsAll, 200, "dict", VarsParam),
      VarWorld(0, "dict", <<>>, 0, "dict", <<>>) }

BoxP1 == BBox("p1", NoneS, Coords(Num(0), Num(0), Num(0), Num(1204), Num(500), Num(303)))

\* a box keyed by "id"
BoxP2 == BBox(NoneS, "p2", Coords(Num(0), Num(0), Num(0), Num(500), Num(500), Num(303)))

\* high below low on the x axis
BoxInverted == BBox("p1", NoneS, Coords(Num(1204), Num(0), Num(0), Num(0), Num(500), Num(303)))

\* a record of the parts endpoint: an id and no coordinates
PartRecord(p) == BBox(NoneS, p, [k \in CoordNames |-> Missing])

BoxWorlds ==
    { BoxWorld(200, << BoxP1 >>, 404, TRUE, <<>>),
      BoxWorld(200, << BoxP1, BoxP2 >>, 404, TRUE, <<>>),
      BoxWorld(200, << BoxInverted >>, 404, TRUE, <<>>),
      BoxWorld(200, <<>>, 404, TRUE, <<>>),
      BoxWorld(400, <<>>, 200, TRUE, << PartRecord("p1") >>),
      BoxWorld(400, <<>>, 200, FALSE, <<>>),
      BoxWorld(400, <<>>, 404, TRUE, <<>>),
      BoxWorld(0, <<>>, 404, TRUE, <<>>) }

PropertyNames == {"Length", "width", "Height", "Volume"}

ConfigVarNames == {NoneS, "PartLength", "PartWidth", "PartHeight", "Missing"}

ResolvePropertyValue ==
    /\ pc = "idle"
    /\ Direct
    /\ UNCHANGED <<session, users, now>>
    /\ \E vw \in VarWorlds, bw \in BoxWorlds, part_id \in Parts,
          property_name \in PropertyNames, config_var_name \in ConfigVarNames :
         LET r == resolve_property_value(vw, bw, part_id, property_name, config_var_name)
         IN /\ op' = [name |-> "resolve_property_value", part |-> part_id, vw |-> vw, bw |-> bw,
                      property |-> property_name, config |-> config_var_name]
            /\ log' = r.log
            /\ ret' = [kind |-> "float", val |-> r.val]
    /\ pc' = "done"
    /\ UNCHANGED loop

CreateCustomPropertySafe ==
    /\ pc = "idle"
    /\ (Direct)
    /\ UNCHANGED <<session, users, now>>
    /\ \E part_id \in Parts, property_name \in {"Length", "Width", "Height"},
          property_value \in {0, 12000, 1200, 7505 - 10000}, ps \in PostStatuses :
         LET r == create_custom_property_safe(part_id, property_name, property_value, ps)
         IN /\ op' = [name |-> "create_custom_property_safe", part |-> part_id,
                      property |-> property_name, value |-> property_value]
            /\ log' = r.log
            /\ ret' = RetBool(r.ret)
    /\ pc' = "done"
    /\ UNCHANGED loop

\* OnShapeService.update_metadata as routes/properties.py calls it for one
\* bounding box: the three properties of its dimensions
OnShapeUpdateMetadata ==
    /\ pc = "idle"
    /\ (Direct)
    /\ UNCHANGED <<session, users, now>>
    /\ \E part_id \in Parts, bbox \in {BoxP1, BoxInverted, PartRecord("p1")}, ps \in PostStatuses :
         LET r == update_metadata(part_id, create_property_objects(calculate_dimensions(bbox)), ps)
         IN /\ op' = [name |-> "update_metadata", part |-> part_id, bbox |-> bbox]
            /\ log' = r.log
            /\ ret' = RetNone
            /\ pc' = IF r.raised THEN "raised" ELSE "done"
    /\ UNCHANGED loop

\* ---- create_length_properties_smart ----------------------------------

\* a BOM item: isdict is FALSE for a JSON value that is no object
BomItem(partId, id) == [isdict |-> TRUE, partId |-> partId, id |-> id]

BomItems ==
    { BomItem("p1", NoneS), BomItem(NoneS, "p2"), BomItem(NoneS, NoneS),
      [isdict |-> FALSE, partId |-> NoneS, id |-> NoneS] }

\* what the element answers during one batch
SmartWorlds ==
    { [vw |-> VarWorld(200, "variables", VarsAll, 404, "dict", <<>>),
       bw |-> BoxWorld(200, << BoxP1 >>, 404, TRUE, <<>>)],
      [vw |-> VarWorld(200, "items", VarsExpr, 200, "parameters", VarsParam),
       bw |-> BoxWorld(200, <<>>, 404, TRUE, <<>>)],
      [vw |-> VarWorld(404, "dict", <<>>, 404, "dict", <<>>),
       bw |-> BoxWorld(200, << BoxP1 >>, 404, TRUE, <<>>)],
      [vw |-> VarWorld(200, "list", VarsZero, 404, "dict", <<>>),
       bw |-> BoxWorld(400, <<>>, 200, TRUE, << PartRecord("p1") >>)],
      [vw |-> VarWorld(0, "dict", <<>>, 0, "dict", <<>>),
       bw |-> BoxWorld(400, <<>>, 404, TRUE, <<>>)] }

SmartPostStatuses == {200, 400}

\* the record of one pass: the part, the three resolved values, and the
\* counter the pass ended in
Pass(part_id, l, w, h, counted) ==
    [part_id |-> part_id, length |-> l, width |-> w, height |-> h, counted |-> counted]

\* the POSTs of one part, in order, answered by ps
SmartPosts(part_id, props, ps) ==
    [k \in 1..Len(props) |->
        create_custom_property_safe(part_id, props[k].name, props[k].val, ps[k]).log[1]]

\* a batch that counts a partly written part as created
CreatedMutantCountsPartial(created_count, success) == created_count + 1

\* created_count after the writes of one part: it counts the part when no
\* write failed
CreatedAfter(created_count, success) == IF success THEN created_count + 1 ELSE created_count

\* errors[:10] of routes/smart_properties.py
FirstTen(errors) == SubSeq(errors, 1, IF Len(errors) < 10 THEN Len(errors) ELSE 10)

CreateLengthPropertiesSmart_Call ==
    /\ pc = "idle"
    /\ (Direct \/ Serving({"smart_properties.create_smart_properties"}))
    /\ UNCHANGED <<session, users, now>>
    /\ \E bom_items \in SeqsUpTo(BomItems, MaxItems), world \in SmartWorlds,
          use_config_vars \in BOOLEAN, use_bbox \in BOOLEAN :
          op' = [name |-> "create_length_properties_smart", part |-> NoneS,
                 input |-> bom_items, vw |-> world.vw, bw |-> world.bw,
                 use_config_vars |-> use_config_vars, use_bbox |-> use_bbox]
    /\ log' = <<>>
    /\ ret' = RetNone
    /\ pc' = "smart"
    /\ loop' = [idx |-> 0, created |-> 0, skipped |-> 0, errors |-> <<>>,
                details |-> <<>>, passes |-> <<>>]

\* one pass of the for loop
CreateLengthPropertiesSmart_Iterate ==
    /\ pc = "smart"
    /\ UNCHANGED <<session, users, now>>
    /\ loop.idx < Len(op.input)
    /\ LET idx == loop.idx + 1
           item == op.input[idx]
           part_id == KeyOf(item)
           cfg(n) == IF op.use_config_vars THEN n ELSE NoneS
           l == resolve_property_value(op.vw, op.bw, part_id, "Length", cfg("PartLength"))
           w == resolve_property_value(op.vw, op.bw, part_id, "Width", cfg("PartWidth"))
           h == resolve_property_value(op.vw, op.bw, part_id, "Height", cfg("PartHeight"))
           resolves == AtIter(l.log \o w.log \o h.log, idx)
           has_values == TruthyFloat(l.val) \/ TruthyFloat(w.val) \/ TruthyFloat(h.val)
           props == PropsToCreate(l.val, w.val, h.val)
       IN IF ~item.isdict
          THEN \* item.get raises: the except clause of the pass
               /\ loop' = [loop EXCEPT !.idx = idx, !.skipped = @ + 1,
                             !.errors = Append(@, [kind |-> "exception", part |-> NoneS]),
                             !.passes = Append(@, Pass(NoneS, Null, Null, Null, "skipped"))]
               /\ log' = log
          ELSE IF part_id = NoneS
          THEN /\ loop' = [loop EXCEPT !.idx = idx, !.skipped = @ + 1,
                             !.passes = Append(@, Pass(NoneS, Null, Null, Null, "skipped"))]
               /\ log' = log
          ELSE IF ~has_values
          THEN /\ loop' = [loop EXCEPT !.idx = idx, !.skipped = @ + 1,
                             !.errors = Append(@, [kind |-> "no_values", part |-> part_id]),
                             !.passes = Append(@, Pass(part_id, l.val, w.val, h.val, "skipped"))]
               /\ log' = log \o resolves
          ELSE \E ps \in [1..Len(props) -> SmartPostStatuses] :
                 LET success == \A k \in 1..Len(props) : ps[k] = 200
                 IN /\ log' = log \o resolves \o AtIter(SmartPosts(part_id, props, ps), idx)
                    /\ loop' = [loop EXCEPT
                          !.idx = idx,
                          !.created = CreatedAfter(@, success),
                          !.errors = IF success THEN @
                                     ELSE Append(@, [kind |-> "partial", part |-> part_id]),
                          !.details = Append(@, [part_id |-> part_id, length |-> l.val,
                                                 width |-> w.val, height |-> h.val,
                                                 created |-> success]),
                          !.passes = Append(@, Pass(part_id, l.val, w.val, h.val,
                                                    IF success THEN "created" ELSE "partial"))]
    /\ UNCHANGED <<op, ret, pc>>

CreateLengthPropertiesSmart_Return ==
    /\ pc = "smart"
    /\ UNCHANGED <<session, users, now>>
    /\ loop.idx >= Len(op.input)
    /\ ret' = [kind |-> "smart",
               status |-> IF loop.created > 0 THEN "success"
                          ELSE IF loop.skipped > 0 THEN "partial" ELSE "failed",
               created |-> loop.created, skipped |-> loop.skipped, total |-> Len(op.input),
               errors |-> IF Direct THEN loop.errors ELSE FirstTen(loop.errors),
               details |-> loop.details,
               message |-> "Created properties"]
    /\ pc' = "done"
    /\ UNCHANGED <<op, log, loop>>

\* ---- main.py create_length_properties ----------------------------------

\* what the element answers: the boundingboxes endpoint (bstatus, boxes),
\* and for an assembly the assembly endpoint (astatus) and, per part of it
\* that has partId and elementId, the bodyboundingbox answer (status, box)
MainWorld(bstatus, boxes, astatus, aparts) ==
    [bstatus |-> bstatus, boxes |-> boxes, astatus |-> astatus, aparts |-> aparts]

AsmPart(part_id, status, box) == [partId |-> part_id, status |-> status, box |-> box]

BoxNoCoords == BBox("p2", NoneS, [k \in CoordNames |-> Missing])

BoxTextCoord ==
    BBox("p2", NoneS, Coords(Num(0), Num(0), Num(0), Val("numstr", 1204), Num(500), Num(303)))

MainWorlds ==
    { MainWorld(200, << BoxP1, BoxNoCoords >>, 404, <<>>),
      MainWorld(200, << BoxInverted, BoxP2 >>, 404, <<>>),
      MainWorld(200, << BoxTextCoord, NotADict >>, 404, <<>>),
      MainWorld(200, <<>>, 404, <<>>),
      MainWorld(500, <<>>, 404, <<>>),
      MainWorld(400, <<>>, 200, << AsmPart("p1", 200, BoxP1), AsmPart("p2", 404, BoxP1) >>),
      MainWorld(400, <<>>, 200, <<>>),
      MainWorld(400, <<>>, 404, <<>>) }

\* bbox_data of the assembly branch: one box per part whose bodyboundingbox
\* answered 200, with that part's partId
RECURSIVE AsmBoxes(_)
AsmBoxes(aparts) ==
    IF aparts = <<>> THEN <<>>
    ELSE (IF aparts[1].status = 200
          THEN << [aparts[1].box EXCEPT !.partId = aparts[1].partId] >> ELSE <<>>)
         \o AsmBoxes(Tail(aparts))

\* the requests of the gathering phase, in order
MainGatherLog(w) ==
    << SimpleGet("boundingboxes", w.bstatus) >>
    \o (IF w.bstatus = 400
        THEN << SimpleGet("assemblies", w.astatus) >>
             \o (IF w.astatus = 200
                 THEN [k \in 1..Len(w.aparts) |->
                         Req("GET", "bodyboundingbox", w.aparts[k].partId, "", NoBody,
                             Resp(w.aparts[k].status, EmptyDoc))]
                 ELSE <<>>)
        ELSE <<>>)

\* the answers to the GET of a part's metadata
MainMetaResps(p) ==
    { Resp(200, TopDoc(Href(p), PropsHex)), Resp(200, TopDoc(NoneS, <<>>)),
      Resp(200, Doc(<< Item(Href(p), PropsHex) >>)), Resp(404, EmptyDoc), Resp(0, EmptyDoc) }

\* the entry for one of Length, Width, Height: by propertyId when the
\* document lists a property of that name with a propertyId, by name if not
MainProperty(existing_meta, prop_name, prop_value) ==
    LET props == existing_meta.properties
        hits == { i \in 1..Len(props) : props[i].name = prop_name }
        existing_prop == props[CHOOSE i \in hits : \A j \in hits : i <= j]
    IN IF hits # {} /\ existing_prop.propertyId # NoneS
       THEN Prop(existing_prop.propertyId, NoneS, Fmt2(prop_value) \o " mm", NoneS)
       ELSE Prop(NoneS, prop_name, Fmt2(prop_value) \o " mm", "STRING")

MainCreateLengthProperties_Call ==
    /\ pc = "idle"
    /\ (Serving({"main.create_length_properties"}))
    /\ UNCHANGED <<session, users, now>>
    /\ \E w \in MainWorlds :
         LET httpError == \/ w.bstatus \notin {200, 400}
                          \/ w.bstatus = 400 /\ (w.astatus # 200 \/ w.aparts = <<>>)
             bbox_data == IF w.bstatus = 200 THEN SelectSeq(w.boxes, LAMBDA b : b.isdict)
                          ELSE AsmBoxes(w.aparts)
         IN /\ op' = [name |-> "main_create_length_properties", part |-> NoneS, world |-> w,
                      input |-> IF httpError THEN <<>> ELSE bbox_data]
            /\ log' = MainGatherLog(w)
            /\ IF httpError
               THEN /\ pc' = "raised"
                    /\ ret' = [kind |-> "http", code |-> IF w.bstatus = 400 /\ w.astatus = 200
                                                         THEN 400 ELSE 500]
               ELSE IF bbox_data = <<>>
               THEN /\ pc' = "done"
                    /\ ret' = [kind |-> "main", status |-> "error", parts_count |-> 0,
                               message |-> "No parts with geometry found",
                               errors |-> << "No bounding box data available" >>]
               ELSE /\ pc' = "main"
                    /\ ret' = RetNone
    /\ loop' = [idx |-> 0, parts_count |-> 0, errors |-> <<>>]

\* one pass of the loop over bbox_data
MainCreateLengthProperties_Iterate ==
    /\ pc = "main"
    /\ UNCHANGED <<session, users, now>>
    /\ loop.idx < Len(op.input)
    /\ LET idx == loop.idx + 1
           box == op.input[idx]
           part_id == box.partId
           v == [k \in CoordNames |-> CoordGet(box, k)]
           length_x == ExtentMm(v["lowX"].n, v["highX"].n)
           length_y == ExtentMm(v["lowY"].n, v["highY"].n)
           length_z == ExtentMm(v["lowZ"].n, v["highZ"].n)
           dimensions == SortedDesc3(length_x, length_y, length_z)
           skip(err) == /\ log' = log
                        /\ loop' = [loop EXCEPT !.idx = idx, !.errors = Append(@, err)]
       IN IF part_id = NoneS
          THEN /\ log' = log
               /\ loop' = [loop EXCEPT !.idx = idx]
          ELSE IF \E k \in CoordNames : v[k].t # "num"
          THEN skip("exception")
          ELSE IF length_x = 0 /\ length_y = 0 /\ length_z = 0
          THEN skip("No geometry")
          ELSE \E g \in MainMetaResps(part_id), ps \in {200, 204, 400} :
                 LET get == Req("GET", "metadata", part_id, "", NoBody, g)
                     properties_to_update ==
                         << MainProperty(g.json, "Length", dimensions[1]),
                            MainProperty(g.json, "Width", dimensions[2]),
                            MainProperty(g.json, "Height", dimensions[3]) >>
                     href == IF g.json.href # NoneS THEN g.json.href ELSE "get_meta_url"
                     post == Req("POST", "metadata_element", part_id, "",
                                 [ok |-> TRUE, href |-> href, properties |-> properties_to_update],
                                 Resp(ps, EmptyDoc))
                 IN IF g.status # 200
                    THEN /\ log' = log \o AtIter(<< get >>, idx)
                         /\ loop' = [loop EXCEPT !.idx = idx,
                                       !.errors = Append(@, IF g.status = 0 THEN "exception"
                                                            ELSE "Cannot get metadata")]
                    ELSE /\ log' = log \o AtIter(<< get, post >>, idx)
                         /\ loop' = [loop EXCEPT !.idx = idx,
                                       !.parts_count = IF ps \in {200, 201, 204} THEN @ + 1 ELSE @,
                                       !.errors = IF ps \in {200, 201, 204} THEN @
                                                  ELSE Append(@, "POST failed")]
    /\ UNCHANGED <<op, ret, pc>>

MainCreateLengthProperties_Return ==
    /\ pc = "main"
    /\ UNCHANGED <<session, users, now>>
    /\ loop.idx >= Len(op.input)
    /\ ret' = [kind |-> "main", status |-> IF loop.parts_count > 0 THEN "success" ELSE "error",
               message |-> IF loop.parts_count > 0 THEN "Updated parts"
                           ELSE "Failed to update any parts",
               parts_count |-> loop.parts_count, errors |-> loop.errors]
    /\ pc' = "done"
    /\ UNCHANGED <<op, log, loop>>

\* ---- UnitConverter ------------------------------------------------------

\* numbers given to to_mm: 1, 10, 5.5 and 0.26
ToMmValues == {100, 1000, 550, 26}

\* units given to to_mm: table entries, other spellings, unknown units and
\* a value that is no string
ToMmUnits ==
    { UnitArg(<<"m", "m">>),
      UnitArg(<<"c", "m">>),
      UnitArg(<<"m">>),
      UnitArg(<<"i", "n">>),
      UnitArg(<<"f", "t">>),
      UnitArg(<<"y", "d">>),
      UnitArg(<<"u", "m">>),
      UnitArg(<<"I", "N">>),
      UnitArg(<<" ", "m", "m", " ">>),
      UnitArg(<<"i", "n", "c", "h">>),
      UnitArg(<<"\"">>),
      UnitArg(<<"x", "y", "z">>),
      UnitArg(<<"m", "i", "c", "r", "o", "m", "e", "t", "e", "r">>),
      NoUnit }

ToMm ==
    /\ pc = "idle"
    /\ (Direct)
    /\ UNCHANGED <<session, users, now>>
    /\ \E value \in ToMmValues, unit \in ToMmUnits :
          /\ op' = [name |-> "to_mm", part |-> NoneS, value |-> value, unit |-> unit]
          /\ ret' = [kind |-> "mm", val |-> to_mm(Flt("num", value), unit)]
    /\ pc' = "done"
    /\ UNCHANGED <<log, loop>>

\* arguments of convert_string_to_mm
ConvertTexts ==
    { Text(<<"1", "0", " ", "i", "n">>),
      Text(<<"5", ".", "5", "i", "n">>),
      Text(<<"1", "0">>),
      Text(<<"g", "a", "r", "b", "a", "g", "e">>),
      Text(<<>>),
      Text(<<"-", "5", " ", "m", "m">>),
      Text(<<"-", "5">>),
      Text(<<"1", ".", "2", ".", "3", " ", "m", "m">>),
      Text(<<".">>),
      Text(<<"1", "0", " ", "I", "N">>),
      Text(<<"1", "0", " ", "y", "d">>),
      Text(<<"n", "a", "n">>),
      Text(<<" ", "1", "0", " ", "m", "m", " ">>),
      Text(<<"0", ".", "2", "6", " ", "u", "m">>),
      Text(<<"2", " ", "\"">>),
      Text(<<"1", " ", "f", "t">>),
      Text(<<"2", ".", "5">>),
      NumberArg(1000),
      NoneArg }

ConvertStringToMm ==
    /\ pc = "idle"
    /\ (Direct)
    /\ UNCHANGED <<session, users, now>>
    /\ \E value_str \in ConvertTexts :
          /\ op' = [name |-> "convert_string_to_mm", part |-> NoneS, text |-> value_str]
          /\ ret' = [kind |-> "mm", val |-> convert_string_to_mm(value_str)]
    /\ pc' = "done"
    /\ UNCHANGED <<log, loop>>

\* ---- process_bom_items ---------------------------------------------------

ProcessBomItems ==
    /\ pc = "idle"
    /\ Direct
    /\ UNCHANGED <<session, users, now>>
    /\ \E items \in BomLists, revision \in {"OnShape_API", "main"} :
          /\ op' = [name |-> "process_bom_items", part |-> NoneS,
                    revision |-> revision, items |-> items]
          /\ ret' = IF revision = "main" THEN process_bom_items_main(items)
                    ELSE process_bom_items(items)
    /\ pc' = "done"
    /\ UNCHANGED <<log, loop>>

\* ---- get_bom and the route /fetch ---------------------------------------

GetBom ==
    /\ pc = "idle"
    /\ Direct
    /\ UNCHANGED <<session, users, now>>
    /\ \E w \in BomWorlds :
          LET r == get_bom(w)
          IN /\ op' = [name |-> "get_bom", part |-> NoneS, world |-> w]
             /\ log' = r.log
             /\ ret' = [kind |-> "bom", data |-> r.data]
             /\ pc' = IF r.raised THEN "raised" ELSE "done"
    /\ UNCHANGED loop

\* the body of a route's answer; absent keys are NoneS
Body(status, message) == [kind |-> "body", status |-> status, message |-> message]

\* routes/bom.py fetch_bom: the items of the BOM are replaced by their rows
FetchBom ==
    /\ pc = "idle"
    /\ Serving({"bom.fetch_bom"})
    /\ UNCHANGED <<session, users, now>>
    /\ \E w \in BomWorlds :
          LET r == get_bom(w)
              rows == IF r.data.hasTable THEN process_bom_items(r.data.items).rows ELSE <<>>
          IN /\ op' = [name |-> "fetch_bom", part |-> NoneS, world |-> w]
             /\ log' = r.log
             /\ IF r.raised
                THEN /\ ret' = HttpError(500)
                     /\ pc' = "raised"
                ELSE /\ ret' = [Body("success", "BOM fetched successfully") EXCEPT
                                   !.kind = "bom_body"] @@ [rows |-> rows]
                     /\ pc' = "done"
    /\ UNCHANGED loop

\* ---- routes/smart_properties.py resolve_value ---------------------------

\* one resolve_property_value call; the body says not_found when it
\* answered None
ResolveValue ==
    /\ pc = "idle"
    /\ Serving({"smart_properties.resolve_value"})
    /\ UNCHANGED <<session, users, now>>
    /\ \E vw \in VarWorlds, bw \in BoxWorlds, part_id \in Parts,
          property_name \in {"Length", "Height"}, config_var_name \in {NoneS, "PartLength"} :
         LET r == resolve_property_value(vw, bw, part_id, property_name, config_var_name)
         IN /\ op' = [name |-> "resolve_value", part |-> part_id, vw |-> vw, bw |-> bw,
                      property |-> property_name, config |-> config_var_name]
            /\ log' = r.log
            /\ ret' = IF r.val.t = "null"
                      THEN Body("not_found", "Could not resolve") @@ [value |-> r.val]
                      ELSE Body("success", "Successfully resolved") @@ [value |-> r.val]
    /\ pc' = "done"
    /\ UNCHANGED loop

\* ---- routes/properties.py create_length_properties ----------------------

\* a box with a partId and no extent at all
BoxZero == BBox("p1", NoneS, Coords(Num(0), Num(0), Num(0), Num(0), Num(0), Num(0)))

\* a box without partId
BoxNoPart == BBox(NoneS, NoneS, Coords(Num(0), Num(0), Num(0), Num(1204), Num(500), Num(303)))

\* a record of the parts endpoint that names its part: no coordinates
PartRecordWithPartId(p) == BBox(p, p, [k \in CoordNames |-> Missing])

RouteBoxes == {BoxP1, BoxZero, BoxNoCoords, BoxNoPart, NotADict}

RouteBoxLists == UNION { [1..n -> RouteBoxes] : n \in 0..MaxItems }

RouteWorlds ==
    { BoxWorld(200, l, 404, TRUE, <<>>) : l \in RouteBoxLists }
    \cup { BoxWorld(400, <<>>, 200, TRUE, << PartRecordWithPartId("p2") >>),
           BoxWorld(400, <<>>, 200, FALSE, <<>>),
           BoxWorld(400, <<>>, 404, TRUE, <<>>),
           BoxWorld(0, <<>>, 404, TRUE, <<>>) }

\* the revision of the route a request is served by
RouteRevision ==
    IF session.route = "properties.create_length_properties" THEN "OnShape_API" ELSE "main"

\* the token, then the bounding boxes: both routes answer 400 when
\* get_bounding_boxes raises, OnShape_API/routes/properties.py also when it
\* answers no box.  bound is whether the local part_id has been assigned
CreateLengthProperties_Call ==
    /\ pc = "idle"
    /\ Serving({"properties.create_length_properties",
                "main.routes.properties.create_length_properties"})
    /\ UNCHANGED <<session, users, now>>
    /\ \E w \in RouteWorlds :
         LET r == get_bounding_boxes(w)
         IN /\ op' = [name |-> "create_length_properties", part |-> NoneS, world |-> w,
                      revision |-> RouteRevision, input |-> r.boxes]
            /\ log' = r.log
            /\ IF r.raised \/ (RouteRevision = "OnShape_API" /\ r.boxes = <<>>)
               THEN /\ pc' = "raised"
                    /\ ret' = HttpError(400)
               ELSE /\ pc' = "props"
                    /\ ret' = RetNone
    /\ loop' = [idx |-> 0, updated_count |-> 0, errors |-> 0, bound |-> FALSE]

\* one pass of the loop over bboxes.  In main/routes/properties.py the
\* handler of a failing pass formats part_id: when no pass has assigned it
\* yet that raises in turn, and the route answers 400
CreateLengthProperties_Iterate ==
    /\ pc = "props"
    /\ UNCHANGED <<session, users, now>>
    /\ loop.idx < Len(op.input)
    /\ LET i == loop.idx + 1
           bbox == op.input[i]
           next == [loop EXCEPT !.idx = i]
           dimensions == IF op.revision = "main" THEN calculate_dimensions_main(bbox)
                         ELSE calculate_dimensions(bbox)
       IN IF ~bbox.isdict
          THEN IF op.revision = "main" /\ ~loop.bound
               THEN /\ pc' = "raised"
                    /\ ret' = HttpError(400)
                    /\ UNCHANGED <<log, loop>>
               ELSE /\ loop' = [next EXCEPT !.errors = @ + 1]
                    /\ UNCHANGED <<log, ret, pc>>
          ELSE IF bbox.partId = NoneS
          THEN /\ loop' = [next EXCEPT !.bound = TRUE]
               /\ UNCHANGED <<log, ret, pc>>
          ELSE IF dimensions.raised
          THEN /\ loop' = [next EXCEPT !.bound = TRUE, !.errors = @ + 1]
               /\ UNCHANGED <<log, ret, pc>>
          ELSE \E ps \in PostStatuses :
                 LET u == update_metadata(bbox.partId, create_property_objects(dimensions), ps)
                 IN /\ log' = log \o AtIter(u.log, i)
                    /\ loop' = IF u.raised
                               THEN [next EXCEPT !.bound = TRUE, !.errors = @ + 1]
                               ELSE [next EXCEPT !.bound = TRUE, !.updated_count = @ + 1]
                    /\ UNCHANGED <<ret, pc>>
    /\ UNCHANGED op

\* the body: main/routes/properties.py answers status, updated_count and
\* errors only
CreateLengthProperties_Return ==
    /\ pc = "props"
    /\ UNCHANGED <<session, users, now>>
    /\ loop.idx >= Len(op.input)
    /\ ret' = IF op.revision = "main"
              THEN [kind |-> "body",
                    status |-> IF loop.updated_count > 0 THEN "success" ELSE "error",
                    updated_count |-> loop.updated_count, errors |-> loop.errors]
              ELSE Body(IF loop.updated_count > 0 THEN "success" ELSE "partial",
                        "Successfully updated parts")
                   @@ [updated_count |-> loop.updated_count, total_parts |-> Len(op.input),
                       errors |-> loop.errors]
    /\ pc' = "done"
    /\ UNCHANGED <<op, log, loop>>

\* ---- resolve_length_properties ------------------------------------------

LItems ==
    { LItem("p1", NoneS, Text(<<"B", "r", "a", "c", "k", "e", "t", "_", "5", "0", "m", "m">>)),
      LItem(NoneS, "p2", Text(<<"P", "l", "a", "t", "e">>)),
      LItem(NoneS, NoneS, Text(<<"R", "a", "i", "l", "-", "1", "2", "0">>)),
      [isdict |-> FALSE, partId |-> NoneS, id |-> NoneS, name |-> NoneArg] }

LItemLists == UNION { [1..n -> LItems] : n \in 0..MaxItems }

\* the answers to the GET of a part's metadata
LMetaAnswers ==
    { LMeta(200, << LProp(<<"U", "n", "i", "t", "s">>, <<"M", "i", "l", "l", "i", "m", "e", "t", "e", "r">>) >>),
      LMeta(200, << LProp(<<"U", "n", "i", "t", " ", "S", "y", "s", "t", "e", "m">>, <<"m", "m">>), LProp(<<"L", "e", "n", "g", "t", "h">>, <<"5", "0", ".", "5", " ", "m", "m">>) >>),
      LMeta(200, << LProp(<<"U", "n", "i", "t", "s">>, <<"I", "n", "c", "h">>), LProp(<<"L", "e", "n", "g", "t", "h">>, <<"2", " ", "i", "n", "c", "h">>) >>),
      LMeta(200, << LProp(<<"M", "a", "t", "e", "r", "i", "a", "l">>, <<"A", "l">>) >>),
      LMeta(200, <<>>),
      LMeta(404, <<>>),
      LMeta(0, <<>>) }

\* the answers to the GET of the variables
LVarAnswers ==
    { LVars(200, TRUE, << LVar(<<"W", "i", "d", "t", "h">>, Text(<<"2", "0">>), Text(<<"m", "m">>)),
                          LVar(<<"P", "a", "r", "t", "L", "e", "n", "g", "t", "h">>, Text(<<"1", "2">>), Text(<<"c", "m">>)) >>),
      LVars(200, TRUE, << LVar(<<"L", "e", "n", "g", "t", "h">>, NoneArg, NoneArg) >>),
      LVars(404, FALSE, <<>>) }

\* LengthPropertyResolver.resolve_length_properties, on its own or for the
\* route /analyze-length-properties
ResolveLengthProperties_Call ==
    /\ pc = "idle"
    /\ (Direct \/ Serving({"length_properties.analyze_length_properties"}))
    /\ UNCHANGED <<session, users, now>>
    /\ \E bom_items \in LItemLists :
          op' = [name |-> "resolve_length_properties", part |-> NoneS, input |-> bom_items]
    /\ log' = <<>>
    /\ ret' = RetNone
    /\ pc' = "lengths"
    /\ loop' = [idx |-> 0, results |-> <<>>, answers |-> <<>>]

\* one pass of the loop over bom_items.  item.get stands before the try:
\* an item without get raises out of the method, and the route answers 500
ResolveLengthProperties_Iterate ==
    /\ pc = "lengths"
    /\ UNCHANGED <<session, users, now>>
    /\ loop.idx < Len(op.input)
    /\ LET i == loop.idx + 1
           item == op.input[i]
       IN IF ~item.isdict
          THEN /\ pc' = "raised"
               /\ ret' = IF Direct THEN RetNone ELSE HttpError(500)
               /\ UNCHANGED <<log, loop>>
          ELSE \E m \in LMetaAnswers, v \in LVarAnswers, s2 \in {200, 404} :
               \E part_id \in {LPartId(item)} :
               \E check \in {_check_units_millimeter(part_id, m)},
                  extracted \in {_extract_length_from_config(
                                     part_id, item.name, v, [m EXCEPT !.status = s2])} :
               \E r \in {ResolveItem(part_id, check, extracted)} :
                    /\ log' = log \o AtIter(r.log, i)
                    /\ loop' = [idx |-> i, results |-> Append(loop.results, r.result),
                                answers |-> Append(loop.answers, m)]
                    /\ UNCHANGED <<ret, pc>>
    /\ UNCHANGED op

ResolveLengthProperties_Return ==
    /\ pc = "lengths"
    /\ UNCHANGED <<session, users, now>>
    /\ loop.idx >= Len(op.input)
    /\ LET result == [kind |-> "lengths", total_items |-> Len(op.input),
                      items_with_units_mm |->
                          Cardinality({ i \in 1..Len(loop.results) : loop.results[i].has_units_mm }),
                      items_with_length_property |->
                          Cardinality({ i \in 1..Len(loop.results) :
                                          loop.results[i].status = "success" }),
                      results |-> loop.results]
       IN ret' = IF Direct THEN result
                 ELSE Body("success", "Analyzed items") @@ [data |-> result]
    /\ pc' = "done"
    /\ UNCHANGED <<op, log, loop>>

\* ---- _get_from_part_name --------------------------------------------------

\* display names of parts
PartNames ==
    { Text(<<"B", "r", "a", "c", "k", "e", "t", "_", "5", "0", "m", "m">>),
      Text(<<"P", "l", "a", "t", "e">>),
      Text(<<"R", "a", "i", "l", "-", "1", "2", "0">>),
      Text(<<"2", "0", "0", "0", "0", "m", "m", "_", "4", "5">>),
      Text(<<"0", ".", "0", "5", "x", "-", "7">>),
      Text(<<"3", "X", "4", "0", "M", "M">>),
      Text(<<"9", "9", "9", "9", "9", "m", "m", " ", "2", "0", "m", "m">>),
      Text(<<"0", ".", "1", "m", "m">>),
      Text(<<"1", "0", "0", "0", "0", " ", "m", "m">>),
      Text(<<"A", "_", "1", ".", "2", ".", "3", "x">>),
      NoneArg }

GetFromPartName ==
    /\ pc = "idle"
    /\ Direct
    /\ UNCHANGED <<session, users, now>>
    /\ \E part_name \in PartNames :
          /\ op' = [name |-> "_get_from_part_name", part |-> NoneS, text |-> part_name]
          /\ ret' = [kind |-> "extracted", val |-> _get_from_part_name(part_name)]
    /\ pc' = "done"
    /\ UNCHANGED <<log, loop>>

\* ---- _parse_value_to_mm ---------------------------------------------------

\* value texts of properties and variables
ValueTexts ==
    { Text(<<"1", "0", " ", "i", "n">>),
      Text(<<"5", " ", "u", "m">>),
      Text(<<"2", " ", "m">>),
      Text(<<"5", "0", ".", "5", " ", "m", "m">>),
      Text(<<"1", "2", " ", "c", "m">>),
      Text(<<"2", " ", "i", "n", "c", "h">>),
      Text(<<"1", " ", "f", "t">>),
      Text(<<"3", " ", "f", "e", "e", "t">>),
      Text(<<"4", " ", "m", "e", "t", "e", "r", "s">>),
      Text(<<"2", ".", "5">>),
      Text(<<"l", "o", "n", "g">>),
      NoneArg }

ParseValueToMm ==
    /\ pc = "idle"
    /\ Direct
    /\ UNCHANGED <<session, users, now>>
    /\ \E value \in ValueTexts :
          /\ op' = [name |-> "_parse_value_to_mm", part |-> NoneS, text |-> value]
          /\ ret' = [kind |-> "mm", val |-> _parse_value_to_mm(value, NoneArg)]
    /\ pc' = "done"
    /\ UNCHANGED <<log, loop>>

\* ---- logins and token requests --------------------------------------------

\* the OAuth callback saves the user with the token data it received
SaveUser ==
    /\ pc = "idle"
    /\ Direct
    /\ \E onshape_id \in OnShapeIds, access_token \in AccessTokens, expires_in \in ExpiresIns :
          /\ users' = save_user(users, now, onshape_id,
                                [access_token |-> access_token, expires_in |-> expires_in])
          /\ op' = [name |-> "save_user", part |-> NoneS, user |-> IdOf(onshape_id),
                    access_token |-> access_token, expires_in |-> expires_in]
    /\ ret' = RetNone
    /\ pc' = "done"
    /\ UNCHANGED <<log, loop, session, now>>

\* a token request
GetValidToken ==
    /\ pc = "idle"
    /\ Direct
    /\ \E user_id \in UserIds :
          \E r \in {get_valid_token_at(users, now, user_id)} :
             /\ op' = [name |-> "get_valid_token", part |-> NoneS, user |-> user_id]
             /\ ret' = [kind |-> "token", val |-> r.token]
             /\ pc' = IF r.raised THEN "raised" ELSE "done"
    /\ UNCHANGED <<log, loop, session, users, now>>

\* time passes between two calls
Tick ==
    /\ pc = "idle"
    /\ Direct
    /\ now < MaxTime
    /\ now' = now + 1
    /\ UNCHANGED <<op, log, ret, pc, loop, session, users>>

\* logins, token requests and the clock on their own: no other operation
\* reads or writes the users table, and a route sees of it only whether
\* get_valid_token raises (Users)
AuthNext ==
    \/ SaveUser
    \/ GetValidToken
    \/ Tick
    \/ Reply

AuthSpec == Init /\ [][AuthNext]_vars

Next ==
    \/ ParseValueToMm
    \/ GetFromPartName
    \/ ResolveLengthProperties_Call
    \/ ResolveLengthProperties_Iterate
    \/ ResolveLengthProperties_Return
    \/ ResolveValue
    \/ CreateLengthProperties_Call
    \/ CreateLengthProperties_Iterate
    \/ CreateLengthProperties_Return
    \/ GetBom
    \/ FetchBom
    \/ ProcessBomItems
    \/ Authenticate
    \/ ToMm
    \/ ConvertStringToMm
    \/ Reply
    \/ MainCreateLengthProperties_Call
    \/ MainCreateLengthProperties_Iterate
    \/ MainCreateLengthProperties_Return
    \/ CreateLengthPropertiesSmart_Call
    \/ CreateLengthPropertiesSmart_Iterate
    \/ CreateLengthPropertiesSmart_Return
    \/ ResolvePropertyValue
    \/ CreateCustomPropertySafe
    \/ OnShapeUpdateMetadata
    \/ CalculateDimensions
    \/ CalculateDimensionsMain
    \/ UpdatePartMetadata
    \/ UpdateMultipleParts_Call
    \/ UpdateMultipleParts_Iterate
    \/ UpdateMultipleParts_Return

Spec == Init /\ [][Next]_vars

\* ------------------------------------------------------------------------
\* Properties
\* ------------------------------------------------------------------------

IsPost(e) == e.method = "POST"

IsGetMeta(e) == e.method = "GET" /\ e.api = "metadata"

UpdateDone == op.name = "update_part_metadata" /\ pc = "done"

\* no update asked for a property, under its name or under its id
NotRequested(q, updates) == DictGet(updates, q.name) = NoneS /\ DictGet(updates, q.propertyId) = NoneS

\* C1: the POST body of update_part_metadata holds one entry per existing
\* property, in the original order, and every property no update was asked
\* for is resent with the value the GET answered
C1_MergeResendsEveryProperty ==
    UpdateDone =>
        \A j \in 1..Len(log) : IsPost(log[j]) =>
            LET existing == _get_properties(log[1].json)
                sent == log[j].body.properties
            IN /\ Len(existing) > 0
               /\ Len(sent) = Len(existing)
               /\ \A k \in 1..Len(existing) :
                     /\ sent[k].propertyId = existing[k].propertyId
                     /\ NotRequested(existing[k], op.updates) => sent[k].value = existing[k].value

\* Length updated (asked for by id), Material resent as it was
C1_Witness ==
    /\ UpdateDone
    /\ op.updates = UpdLengthById
    /\ Len(log) = 2 /\ IsPost(log[2])
    /\ log[2].body.properties = << Prop("idL", NoneS, "10", NoneS), Prop("idM", NoneS, "Al", NoneS) >>

\* C2: an update keyed by the logical name of an existing property puts the
\* new value into the POST body
C2_UpdateByNameIsApplied ==
    UpdateDone =>
        \A j \in 1..Len(log) : IsPost(log[j]) =>
            LET existing == _get_properties(log[1].json)
                sent == log[j].body.properties
            IN \A k \in 1..Len(existing) :
                  DictGet(op.updates, existing[k].name) # NoneS
                     => sent[k].value = DictGet(op.updates, existing[k].name)

\* C3: update_part_metadata returns False without a POST on a 404, on a
\* document without href and on an empty properties array; it returns False
\* when the POST is not answered 200; it never posts twice
C3_FailuresReturnFalseNoRetry ==
    UpdateDone =>
        LET posts == SelectSeq(log, IsPost)
            doc == log[1].json
        IN /\ Len(log) >= 1 /\ IsGetMeta(log[1])
           /\ log[1].status = 404 => (ret.val = FALSE /\ posts = <<>>)
           /\ (log[1].status = 200 /\ Len(doc.items) > 0 /\ doc.items[1].href = NoneS)
                 => (ret.val = FALSE /\ posts = <<>>)
           /\ (log[1].status = 200 /\ _get_properties(doc) = <<>>)
                 => (ret.val = FALSE /\ posts = <<>>)
           /\ \A j \in 1..Len(posts) : posts[j].status # 200 => ret.val = FALSE
           /\ Len(posts) <= 1

\* a POST was sent, answered 400, and the call returned False after it
C3_Witness ==
    /\ UpdateDone
    /\ Len(log) = 2 /\ IsPost(log[2]) /\ log[2].status = 400
    /\ ret.val = FALSE

\* C4: every POST that writes properties of a part comes after a GET of
\* that part's metadata, answered 200, in the same operation
C4_EveryWriteFollowsARead ==
    \A j \in 1..Len(log) : IsPost(log[j]) =>
        \E i \in 1..(j - 1) :
            IsGetMeta(log[i]) /\ log[i].part = log[j].part /\ log[i].status = 200

BatchOp == op.name = "update_multiple_parts"

ResolveDone == op.name = "resolve_property_value" /\ pc = "done"

\* the table get_all_variables hands to resolve_property_value names the
\* variable, with a value float() accepts
HasNumericVar ==
    /\ op.config # NoneS
    /\ op.config \in DOMAIN get_all_variables(op.vw).vars
    /\ FloatOk(get_all_variables(op.vw).vars[op.config])

\* the boxes obtained for the element (from the boundingboxes endpoint, or
\* from the parts endpoint when that one does not answer 200) list the part
BoxesObtained ==
    IF op.bw.bstatus = 200 THEN op.bw.boxes
    ELSE IF op.bw.bstatus # 0 /\ op.bw.pstatus = 200 /\ op.bw.islist THEN op.bw.parts
    ELSE <<>>

PartHasBBox == \E i \in 1..Len(BoxesObtained) : KeyOf(BoxesObtained[i]) = op.part

FirstBoxOfPart ==
    BoxesObtained[CHOOSE i \in 1..Len(BoxesObtained) :
                     /\ KeyOf(BoxesObtained[i]) = op.part
                     /\ \A j \in 1..(i - 1) : KeyOf(BoxesObtained[j]) # op.part]

ConsultsBBox == \E j \in 1..Len(log) : log[j].api \in {"boundingboxes", "parts"}

SmartOp == op.name = "create_length_properties_smart"

\* the value resolved in a pass for a property name
ResolvedFor(pass, name) ==
    CASE name = "Length" -> pass.length [] name = "Width" -> pass.width [] OTHER -> pass.height

AllNull(pass) == pass.length = Null /\ pass.width = Null /\ pass.height = Null

\* C7: in create_length_properties_smart a POST for a property of a part is
\* sent only when that property resolved to a value; a part whose three
\* resolutions are null gets no POST and is counted as skipped
C7_NoWriteWithoutResolvedValue ==
    SmartOp =>
        /\ \A j \in 1..Len(log) : IsPost(log[j]) =>
              /\ log[j].iter \in 1..Len(loop.passes)
              /\ loop.passes[log[j].iter].part_id = log[j].part
              /\ ResolvedFor(loop.passes[log[j].iter], log[j].body.properties[1].name) # Null
        /\ \A i \in 1..Len(loop.passes) : AllNull(loop.passes[i]) =>
              /\ loop.passes[i].counted = "skipped"
              /\ \A j \in 1..Len(log) : IsPost(log[j]) => log[j].iter # i
        /\ loop.skipped = Cardinality({ i \in 1..Len(loop.passes) : loop.passes[i].counted = "skipped" })

\* one part resolved nothing and was skipped, another was written
C7_Witness ==
    /\ SmartOp /\ pc = "done"
    /\ \E i \in 1..Len(loop.passes) :
          loop.passes[i].part_id # NoneS /\ AllNull(loop.passes[i])
    /\ \E j \in 1..Len(log) : IsPost(log[j])

DimsDone == op.name \in {"calculate_dimensions", "calculate_dimensions_main"} /\ pc = "done"

\* C8: calculate_dimensions returns length >= width >= height >= 0
C8_DimensionsOrderedNonNegative ==
    DimsDone =>
        /\ ret.val.length >= ret.val.width
        /\ ret.val.width >= ret.val.height
        /\ ret.val.height >= 0

\* a box with high below low on some axis
Inverted(b) ==
    /\ b.isdict
    /\ \A k \in CoordNames : CoordGet(b, k).t = "num"
    /\ \/ CoordGet(b, "highX").n < CoordGet(b, "lowX").n
       \/ CoordGet(b, "highY").n < CoordGet(b, "lowY").n
       \/ CoordGet(b, "highZ").n < CoordGet(b, "lowZ").n

Malformed(b) ==
    \/ ~b.isdict
    \/ \E k \in CoordNames : b.c[k].t \in {"str", "null"}
    \/ Inverted(b)

\* C9: calculate_dimensions never raises, and answers the zero record for an
\* input that is no record, has a non-numeric coordinate, or is inverted
C9_ZeroRecordOnMalformedInput ==
    op.name \in {"calculate_dimensions", "calculate_dimensions_main"} =>
        /\ pc # "raised"
        /\ Malformed(op.bbox) => ret.val = ZeroDims

\* round(length * width * height, 2) of the returned values, in hundredths
\* of a cubic millimetre
VolumeOfReturned(d) ==
    RoundHalfEven((d.length \div 10) * (d.width \div 10) * (d.height \div 10), 10000)

NumericBox(b) == b.isdict /\ \A k \in CoordNames : CoordGet(b, k).t = "num"

TableFactors ==
    ("mm" :> 1000) @@ ("cm" :> 10000) @@ ("m" :> 1000000) @@ ("in" :> 25400)
    @@ ("ft" :> 304800) @@ ("yd" :> 914400) @@ ("um" :> 1)

\* C11: for every unit u of the table, to_mm(1, u) is the factor of u
C11_OneUnitIsItsFactor ==
    (op.name = "to_mm" /\ pc = "done" /\ op.value = 100 /\ op.unit.isstr
        /\ JoinText(op.unit.s) \in DOMAIN TableFactors)
    => ret.val = Flt("num", TableFactors[JoinText(op.unit.s)] * 10)

\* the number a text starts with: an optional sign, then the run of digits
\* and dots, when that run writes a decimal
LeadingNumber(arg) ==
    IF arg.t = "num" THEN Flt("num", arg.n)
    ELSE IF arg.t = "none" THEN NoFloat
    ELSE LET text == LowerText(StripText(arg.s))
             signed == Len(text) > 0 /\ text[1] \in {"-", "+"}
             body == IF signed THEN Drop(text, 1) ELSE text
             d == DecimalOf(SubSeq(body, 1, PrefixLen(body, "digitdot")))
         IN IF d.t = "num" /\ signed /\ text[1] = "-" THEN Flt("num", 0 - d.n) ELSE d

\* the unit token that follows the leading number, mm when there is none
TrailingUnit(arg) ==
    IF arg.t # "str" THEN MmChars
    ELSE LET text == LowerText(StripText(arg.s))
             signed == Len(text) > 0 /\ text[1] \in {"-", "+"}
             body == IF signed THEN Drop(text, 1) ELSE text
             rest == Drop(body, PrefixLen(body, "digitdot"))
             after == Drop(rest, PrefixLen(rest, "space"))
             token == SubSeq(after, 1, PrefixLen(after, "unit"))
         IN IF token = <<>> THEN MmChars ELSE token

\* C12: convert_string_to_mm returns the leading number converted by the
\* trailing unit token (mm when there is none), and returns null exactly
\* when the text starts with no number
C12_NullExactlyWithoutNumber ==
    (op.name = "convert_string_to_mm" /\ pc = "done") =>
        /\ (ret.val = NoFloat) <=> (LeadingNumber(op.text) = NoFloat)
        /\ ret.val # NoFloat =>
              ret.val = to_mm(LeadingNumber(op.text), UnitArg(TrailingUnit(op.text)))

\* ------------------------------------------------------------------------
\* C13: process_bom_items is total: it never raises, drops exactly the
\* entries that are not records and answers one row per record entry, in
\* input order (the empty list giving the empty list).
\* ------------------------------------------------------------------------
BomDone == op.name = "process_bom_items" /\ pc = "done"

C13_ProcessBomItemsIsTotal ==
    BomDone =>
        /\ ~ret.raised
        /\ ret.rows = BomRowsOfDicts(op.items)

\* ------------------------------------------------------------------------
\* C14: every row process_bom_items answers carries the partId of the entry
\* it was made from.
\* ------------------------------------------------------------------------
RECURSIVE DictsOf(_)
DictsOf(items) ==
    IF items = <<>> THEN <<>>
    ELSE IF Head(items).t = "dict" THEN <<Head(items)>> \o DictsOf(Tail(items))
         ELSE DictsOf(Tail(items))

C14_RowsCarryPartId ==
    (BomDone /\ ~ret.raised) =>
        \A i \in 1..Len(ret.rows) :
            /\ "partId" \in DOMAIN ret.rows[i]
            /\ "partId" \in DOMAIN DictsOf(op.items)[i].d
                  => ret.rows[i].partId = DictsOf(op.items)[i].d["partId"]

\* ------------------------------------------------------------------------
\* C15: get_bom asks the Assembly BOM endpoint first and the parts endpoint
\* only when the first answer is not 200; a parts list of n records gives n
\* items in the order of the list, with item = 1..n and quantity = 1; when
\* both endpoints answer a status other than 200 the call raises.
\* ------------------------------------------------------------------------
GetBomEnded == op.name = "get_bom" /\ pc \in {"done", "raised"}

AllRecords(l) == \A i \in 1..Len(l) : l[i].t = "dict"

C15_GetBomAssemblyThenPartStudio ==
    GetBomEnded =>
        LET w == op.world
        IN /\ Len(log) \in {1, 2}
           /\ log[1].api = "assemblies_bom"
           /\ Len(log) = 2 => (log[1].status # 200 /\ log[2].api = "parts")
           /\ (w.astatus # 200 /\ w.astatus # 0 /\ w.pstatus = 200 /\ w.islist
                 /\ AllRecords(w.parts)) =>
                 /\ pc = "done"
                 /\ Len(log) = 2
                 /\ Len(ret.data.items) = Len(w.parts)
                 /\ \A i \in 1..Len(w.parts) :
                       /\ ret.data.items[i].d["item"] = i
                       /\ ret.data.items[i].d["quantity"] = 1
                       /\ ret.data.items[i].d["name"] = GetOr(w.parts[i].d, "name", "-")
           /\ (Len(log) = 2 /\ log[1].status # 200 /\ log[2].status # 200) => pc = "raised"

C15_Witness ==
    /\ GetBomEnded
    /\ pc = "done"
    /\ Len(log) = 2
    /\ Len(op.world.parts) = MaxItems
    /\ ret.data.items[MaxItems].d["item"] = MaxItems

\* ------------------------------------------------------------------------
\* C16: every response body of a route or batch operation carries a status
\* that is one of success, partial, error, info, and a message.
\* ------------------------------------------------------------------------
HasBody == pc = "done" /\ "status" \in DOMAIN ret

C16_BodiesCarryStatusAndMessage ==
    HasBody =>
        /\ ret.status \in {"success", "partial", "error", "info"}
        /\ "message" \in DOMAIN ret

\* ------------------------------------------------------------------------
\* C17: in every route, when the user does not exist or the stored token has
\* expired, get_valid_token fails, the request is answered with an HTTP
\* error, and the request issues no request to the CAD API.
\* ------------------------------------------------------------------------
NoToken == session.user \in {"missing", "expired"}

C17_NoTokenNoRequest ==
    NoToken =>
        /\ get_valid_token(session.user).raised
        /\ pc = "raised"
        /\ ret = HttpError(IF session.complete THEN RouteAuthStatus[session.route]
                            ELSE RouteRejectStatus[session.route])
        /\ op = NoOp
        /\ log = <<>>

C17_Witness ==
    /\ session.user = "expired"
    /\ session.complete
    /\ session.route = "metadata.update_metadata"
    /\ pc = "raised"

\* ------------------------------------------------------------------------
\* C18: in every batch over BOM items or bounding boxes, an item without
\* partId or otherwise malformed (an item that is not a record included) is
\* skipped and the later items are still processed: no item makes the batch
\* end before its last item.
\* ------------------------------------------------------------------------
ItemBatches ==
    {"resolve_length_properties", "create_length_properties",
     "create_length_properties_smart", "main_create_length_properties"}

BatchAborted == op.name \in ItemBatches /\ pc = "raised" /\ loop.idx < Len(op.input)

C18_NoItemAbortsTheBatch == ~BatchAborted

\* ------------------------------------------------------------------------
\* C20: an item of resolve_length_properties whose Units-Millimeter check
\* fails (no such property, metadata unavailable, no partId) has no
\* extraction strategy run for it, keeps length_mm null and gets the status
\* no_units_mm; the status success is given only to an item whose check
\* passed.
\* ------------------------------------------------------------------------
ResolvingLengths == op.name = "resolve_length_properties" /\ pc \in {"lengths", "done"}

\* the check of item i, from the item and the answer its metadata GET got
UnitsCheckPasses(i) ==
    /\ LPartId(op.input[i]) # NoneS
    /\ loop.answers[i].status = 200
    /\ \E k \in 1..Len(loop.answers[i].props) : IsUnitsMillimeter(loop.answers[i].props[k])

\* the requests issued in pass i of the loop
RequestsOfPass(i) == SelectSeq(log, LAMBDA r : r.iter = i)

C20_NoExtractionWithoutUnitsMillimeter ==
    ResolvingLengths =>
        \A i \in 1..Len(loop.results) :
            /\ ~UnitsCheckPasses(i) =>
                  /\ loop.results[i].status = "no_units_mm"
                  /\ loop.results[i].length_mm = NoFloat
                  /\ Len(RequestsOfPass(i)) = (IF LPartId(op.input[i]) = NoneS THEN 0 ELSE 1)
                  /\ \A j \in 1..Len(log) : log[j].iter = i => log[j].api = "part_metadata"
            /\ loop.results[i].status = "success" => UnitsCheckPasses(i)

\* a finished batch with an item whose part declares inches and names a
\* length all the same, and an item that was resolved
C20_Witness ==
    /\ ResolvingLengths
    /\ pc = "done"
    /\ \E i \in 1..Len(loop.results) :
          /\ ~UnitsCheckPasses(i)
          /\ loop.answers[i].status = 200
          /\ Len(loop.answers[i].props) = 2
          /\ _get_from_part_name(op.input[i].name).found
    /\ \E i \in 1..Len(loop.results) : loop.results[i].status = "success"

\* ------------------------------------------------------------------------
\* C19: no caller of calculate_dimensions writes Length, Width and Height to
\* a part whose computed dimensions are all zero: such a part is skipped.
\* ------------------------------------------------------------------------
DimensionBatches == {"create_length_properties", "main_create_length_properties"}

AllZeroDimensions(bbox) ==
    LET d == calculate_dimensions(bbox)
    IN d.length = 0 /\ d.width = 0 /\ d.height = 0

\* request j of the log writes the dimensions of the box of its pass
WritesDimensions(j) == log[j].method = "POST" /\ log[j].iter \in 1..Len(op.input)

C19_NoWriteOfAllZeroDimensions ==
    op.name \in DimensionBatches =>
        \A j \in 1..Len(log) :
            WritesDimensions(j) => ~AllZeroDimensions(op.input[log[j].iter])

\* ------------------------------------------------------------------------
\* C21: create_length_properties_smart called with use_bbox = false does not
\* consult the bounding-box strategy: it issues no bounding-box request and
\* resolves no value from a bounding box.
\* ------------------------------------------------------------------------
SmartWithoutBBox == op.name = "create_length_properties_smart" /\ ~op.use_bbox

C21_NoBBoxWhenUseBBoxIsFalse ==
    SmartWithoutBBox =>
        \A j \in 1..Len(log) : log[j].api \notin {"boundingboxes", "parts"}

\* ------------------------------------------------------------------------
\* C22: _extract_length_from_config evaluates its strategies in the order
\* configuration variable, metadata property, bounding box, part-name
\* pattern, stops at the first that answers, and returns null when all fail:
\* the variables request of a pass stands before the metadata request of the
\* extraction, and a pass in which every strategy failed has asked for the
\* bounding box of the part after them.
\* ------------------------------------------------------------------------
ApisOfPass(i) == [ j \in 1..Len(RequestsOfPass(i)) |-> RequestsOfPass(i)[j].api ]

IsPrefixOf(s, t) == Len(s) <= Len(t) /\ SubSeq(t, 1, Len(s)) = s

C22_FourStrategiesInOrder ==
    ResolvingLengths =>
        \A i \in 1..Len(loop.results) :
            /\ IsPrefixOf(ApisOfPass(i),
                          <<"part_metadata", "partstudio_variables", "part_metadata",
                            "boundingboxes">>)
            /\ loop.results[i].status = "no_length_found" =>
                  ApisOfPass(i) = <<"part_metadata", "partstudio_variables", "part_metadata",
                                    "boundingboxes">>

\* ------------------------------------------------------------------------
\* C23: every value the part-name strategy returns lies strictly between 0.1
\* and 10000 and is the first match, in the lower-cased name, of the first
\* pattern in the order <num>mm, <num>x, _<num>, -<num> whose first match
\* lies in that range; when no pattern has such a match the strategy
\* returns null.
\* ------------------------------------------------------------------------
PartNameDone == op.name = "_get_from_part_name" /\ pc = "done"

\* the lower-cased name of the call, empty for a name that is no text
LoweredName == IF op.text.t = "str" THEN LowerText(op.text.s) ELSE <<>>

\* the first match of pattern k lies in the plausible range (in hundredths)
FirstMatchInRange(k) ==
    LET value == PatternValue(LoweredName, NamePatterns[k])
    IN value.t = "num" /\ 10 < value.n /\ value.n < 1000000

PatternsInRange == { k \in 1..Len(NamePatterns) : FirstMatchInRange(k) }

C23_PartNameValueInRangeFromFirstPattern ==
    PartNameDone =>
        IF PatternsInRange = {}
        THEN ~ret.val.found /\ ret.val.mm = NoFloat
        ELSE LET k == CHOOSE a \in PatternsInRange : \A b \in PatternsInRange : a <= b
             IN /\ ret.val.found
                /\ ret.val.source = "part_name"
                /\ ret.val.mm = PatternValue(LoweredName, NamePatterns[k])
                /\ 10 < ret.val.mm.n /\ ret.val.mm.n < 1000000

\* a name whose first pattern matches out of range and whose value comes
\* from a later pattern
C23_Witness ==
    /\ PartNameDone
    /\ PatternValue(LoweredName, NamePatterns[1]).t = "num"
    /\ ~FirstMatchInRange(1)
    /\ ret.val.found
    /\ ret.val.mm = PatternValue(LoweredName, NamePatterns[3])

\* ------------------------------------------------------------------------
\* C24: for every value text made of a non-negative number followed by a
\* unit token of the UnitConverter table, _parse_value_to_mm without an
\* explicit unit returns the millimetre value convert_string_to_mm returns,
\* rounded to 2 decimals.
\* ------------------------------------------------------------------------
ParseValueDone == op.name = "_parse_value_to_mm" /\ pc = "done"

\* the text is a number followed by a unit token of the table
NumberWithTableUnit(arg) ==
    /\ arg.t = "str"
    /\ LeadingNumber(arg).t = "num"
    /\ LeadingNumber(arg).n >= 0
    /\ LowerText(StripText(arg.s)) # SubSeq(LowerText(StripText(arg.s)), 1,
                                             PrefixLen(LowerText(StripText(arg.s)), "digitdot"))
    /\ JoinText(TrailingUnit(arg)) \in DOMAIN CONVERSIONS

\* round(x, 2) of a converter result (ten-thousandths), in hundredths
ConverterRounded(x) == IF x.t = "num" THEN Flt("num", RoundHalfEven(x.n, 100)) ELSE x

C24_ParseValueAgreesWithUnitConverter ==
    (ParseValueDone /\ NumberWithTableUnit(op.text))
    => ret.val = ConverterRounded(convert_string_to_mm(op.text))

\* ------------------------------------------------------------------------
\* C25: the POST issued by update_part_metadata is addressed to the href
\* returned by the preceding GET of the same part's metadata.
\* ------------------------------------------------------------------------
\* the address a request of the metadata endpoint is sent to
AddressOf(e) == PartUrl(e.part, e.query)

\* the href of the item a GET answered
HrefAnswered(e) == IF Len(e.json.items) = 0 THEN NoneS ELSE e.json.items[1].href

\* as stated: the address of the POST is the href the GET answered
C25_PostAddressedToHref ==
    UpdateDone =>
        \A j \in 1..Len(log) :
            IsPost(log[j]) =>
                /\ j > 1
                /\ IsGetMeta(log[j - 1])
                /\ log[j - 1].part = log[j].part
                /\ AddressOf(log[j]) = HrefAnswered(log[j - 1])

\* C25, amended: the POST directly follows the GET of the same part, is
\* sent to the metadata URL of that part with configuration=default, built
\* from the identifiers of the call, and names in its body the href the GET
\* answered as the item to write
C25_PostCarriesHrefOfGet ==
    UpdateDone =>
        \A j \in 1..Len(log) :
            IsPost(log[j]) =>
                /\ j > 1
                /\ IsGetMeta(log[j - 1])
                /\ log[j - 1].status = 200
                /\ log[j - 1].part = op.part /\ log[j].part = op.part
                /\ AddressOf(log[j]) = PartUrl(op.part, "configuration=default")
                /\ HrefAnswered(log[j - 1]) # NoneS
                /\ log[j].body.href = HrefAnswered(log[j - 1])

\* a POST was sent after a GET whose href is not the address of the POST
C25_Witness ==
    /\ UpdateDone
    /\ Len(log) = 2
    /\ IsPost(log[2])
    /\ log[2].body.href = HrefAnswered(log[1])
    /\ AddressOf(log[2]) # HrefAnswered(log[1])

\* ------------------------------------------------------------------------
\* C26: whenever update_part_metadata returns True for a non-empty update
\* request, at least one requested new value appears in the POST body it
\* sent: success is never reported for a write that applied none of the
\* requested updates.
\* ------------------------------------------------------------------------
\* the POST carries the value requested under key k for the property the key
\* names, by its id or by its name
AppliedInPost(k) ==
    \E j \in 2..Len(log) :
        /\ IsPost(log[j])
        /\ \E i \in 1..Len(log[j].body.properties) :
              LET existing == log[j - 1].json.items[1].properties[i]
              IN /\ (existing.propertyId = k \/ existing.name = k)
                 /\ log[j].body.properties[i].value = op.updates[k]

C26_SuccessMeansAnUpdateWasApplied ==
    (UpdateDone /\ ret = RetBool(TRUE) /\ DOMAIN op.updates # {})
    => \E k \in DOMAIN op.updates : AppliedInPost(k)

\* ------------------------------------------------------------------------
\* C27: in every route, a request rejected for a missing required
\* parameter, an empty update list or an empty parts list is answered with
\* HTTP 400: the rejection is not caught by the generic exception clause of
\* the handler and raised again as 500.
\* ------------------------------------------------------------------------
Rejected == session.route \in Routes /\ ~session.complete

C27_RejectionsAnswer400 ==
    Rejected => (pc = "raised" /\ ret = HttpError(400) /\ log = <<>>)

\* ------------------------------------------------------------------------
\* C28: after update_multiple_parts the result map holds one entry for every
\* input element, and the reported success count is the number of input
\* elements whose update returned True, also when a partId occurs more than
\* once or an element has no partId.
\* ------------------------------------------------------------------------
BatchDone == BatchOp /\ pc = "done"

\* the update of element i returned True: its POST was answered 200
UpdateReturnedTrue(i) ==
    \E j \in 1..Len(log) : log[j].iter = i /\ IsPost(log[j]) /\ log[j].status = 200

ElementsUpdated == { i \in 1..Len(op.input) : UpdateReturnedTrue(i) }

C28_OneEntryPerElementAndTrueCount ==
    BatchDone =>
        /\ Cardinality(DOMAIN ret.val) = Len(op.input)
        /\ SuccessCount(ret.val) = Cardinality(ElementsUpdated)
        /\ "successCount" \in DOMAIN ret =>
              (ret.successCount = Cardinality(ElementsUpdated)
                  /\ ret.totalParts = Len(op.input))

\* ------------------------------------------------------------------------
\* C29: over any sequence of logins (save_user) and token requests,
\* get_valid_token returns the user's access token only while the clock is
\* not after the expiry stored by the user's latest save_user; once the
\* token has expired every call fails until the next save_user, and a token
\* request never changes the stored user record.
\* ------------------------------------------------------------------------
TokenCall == op.name = "get_valid_token" /\ pc \in {"done", "raised"}

\* the rows of the user the call names
RowsOfCall == RowsOf(users, op.user)

\* a login has just stored its row: the token it was given, and the expiry
\* counted from the time of the login
LoginStored ==
    (op.name = "save_user" /\ pc = "done") =>
        \A o \in RowsOfCall :
            /\ decrypt_token(users[o].access_token) = op.access_token
            /\ users[o].access_token.cipher = "fernet"
            /\ users[o].token_expires_at =
                  now + (IF op.expires_in = NoExpiresIn THEN 3600 ELSE op.expires_in)

\* a call returns exactly when the user has a row that has not expired, and
\* then returns the stored token
TokenWhileNotExpired ==
    TokenCall =>
        /\ pc = "done" <=> \E o \in RowsOfCall : now <= users[o].token_expires_at
        /\ pc = "done" => \A o \in RowsOfCall : ret.val = decrypt_token(users[o].access_token)
        /\ pc = "raised" => ret.val = NoneS

\* only a login changes the table; a token request and the passing of time
\* leave it as it is
OnlyLoginChangesUsers ==
    /\ users' # users => (op'.name = "save_user" /\ pc = "idle")
    /\ op'.name = "get_valid_token" => users' = users

C29_TokenOnlyUntilExpiryOfLatestLogin ==
    /\ [](LoginStored /\ TokenWhileNotExpired)
    /\ [][OnlyLoginChangesUsers]_vars

\* a user who logged in asks for the token after it expired, and is refused
C29_Witness ==
    /\ TokenCall
    /\ pc = "raised"
    /\ \E o \in RowsOfCall : now > users[o].token_expires_at

\* ------------------------------------------------------------------------
\* C30: after create_length_properties_smart over n items every item is
\* accounted for exactly once, as created, as skipped, or with a 'Partial
\* creation' error: created + skipped + partial = n = total, and details
\* holds one record per created or partly created item.
\* ------------------------------------------------------------------------
SmartDone == SmartOp /\ pc = "done"

\* the positions of the errors that report a partial creation
PartialErrors == { j \in 1..Len(ret.errors) : ret.errors[j].kind = "partial" }

\* the passes that ended in the counter c
PassesCounted(c) == { i \in 1..Len(loop.passes) : loop.passes[i].counted = c }

C30_EveryItemCountedOnce ==
    SmartDone =>
        /\ ret.total = Len(op.input)
        /\ Len(loop.passes) = Len(op.input)
        /\ ret.created = Cardinality(PassesCounted("created"))
        /\ ret.skipped = Cardinality(PassesCounted("skipped"))
        /\ Cardinality(PartialErrors) = Cardinality(PassesCounted("partial"))
        /\ ret.created + ret.skipped + Cardinality(PartialErrors) = ret.total
        /\ Len(ret.details) = ret.created + Cardinality(PartialErrors)
        /\ Cardinality({ j \in 1..Len(ret.details) : ret.details[j].created }) = ret.created

\* a batch of two items: one written in part, one skipped
C30_Witness ==
    /\ SmartDone
    /\ Len(op.input) = 2
    /\ Cardinality(PartialErrors) = 1
    /\ ret.skipped = 1
    /\ Len(ret.details) = 1

====
